---- MODULE Spec2Model ----
(***************************************************************************)
(* A model of the dialkit reactive store (DialStoreClass): panels, live    *)
(* flat values, snapshots, base values, presets, the active preset         *)
(* pointer and the three kinds of subscriber sets.                         *)
(*                                                                         *)
(* JavaScript values are tagged records.  Numbers are held in tenths       *)
(* (0.8 is 8, 1 is 10).  A JavaScript Map is a function whose DOMAIN is    *)
(* the set of keys present; a Set is a duplicate-free sequence in          *)
(* insertion order; a plain object used as a flat value map is a function  *)
(* from the paths present to values.                                       *)
(***************************************************************************)
EXTENDS Integers, Sequences, FiniteSets, TLC

VARIABLES
  panels,           \* Map<string, PanelConfig>
  listeners,        \* Map<string, Set<Listener>>
  globalListeners,  \* Set<Listener>
  snapshots,        \* Map<string, Record<string, DialValue>>, with identity
  actionListeners,  \* Map<string, Set<ActionListener>>
  presets,          \* Map<string, Preset[]>
  activePreset,     \* Map<string, string | null>
  baseValues,       \* Map<string, Record<string, DialValue>>
  unsubs,           \* the unsubscribe closures handed out so far
  calls,            \* listener invocations made by the last store call
  seen,             \* what a listener reads from the store while it is notified
  last,             \* the last store call: operation, arguments, outcome
  ncalls,           \* number of store calls made so far
  hist,             \* history: what earlier calls saw
  binding,          \* the object useDialKit returned: its config and its params store
  eval              \* a pure function applied to inputs: the inputs and the result

storeVars == <<panels, snapshots, presets, activePreset, baseValues>>
subVars == <<listeners, globalListeners, actionListeners>>
vars == <<panels, listeners, globalListeners, snapshots, actionListeners,
          presets, activePreset, baseValues, unsubs, calls, seen, last, ncalls, hist,
          binding, eval>>
\* everything but eval
runVars == <<panels, listeners, globalListeners, snapshots, actionListeners,
             presets, activePreset, baseValues, unsubs, calls, seen, last, ncalls, hist,
             binding>>

-----------------------------------------------------------------------------
(* Bounds *)

\* number of store calls in a run
MaxCalls == 6

-----------------------------------------------------------------------------
(* JavaScript values *)

Num(n) == [t |-> "number", n |-> n]
Bool(b) == [t |-> "boolean", b |-> b]
Str(s) == [t |-> "string", s |-> s]
Arr(els) == [t |-> "array", els |-> els]
Obj(ent) == [t |-> "object", ent |-> ent]
Null == [t |-> "null"]
Undefined == [t |-> "undefined"]
Fn == [t |-> "function"]

\* typeof v
TypeOf(v) == IF v.t \in {"array", "null"} THEN "object" ELSE v.t

IndexKey(i) == CASE i = 0 -> "0" [] i = 1 -> "1" [] i = 2 -> "2"
                 [] i = 3 -> "3" [] i = 4 -> "4" [] OTHER -> "5"

\* Object.entries(v) of an object or an array
Entries(v) ==
  IF v.t = "array" THEN [i \in 1..Len(v.els) |-> <<IndexKey(i - 1), v.els[i]>>]
  ELSE v.ent

\* 'key' in v
HasKey(v, key) == \E i \in 1..Len(Entries(v)) : Entries(v)[i][1] = key

\* v[key] (v.key); undefined when the key is not there
Get(v, key) ==
  IF HasKey(v, key)
  THEN Entries(v)[CHOOSE i \in 1..Len(Entries(v)) : Entries(v)[i][1] = key][2]
  ELSE Undefined

\* the truthiness of v (if (v), v || w)
Truthy(v) ==
  CASE v.t = "number" -> v.n # 0
    [] v.t = "boolean" -> v.b
    [] v.t = "string" -> v.s # ""
    [] v.t \in {"undefined", "null"} -> FALSE
    [] OTHER -> TRUE

\* a ?? b
Coalesce(a, b) == IF a.t \in {"undefined", "null"} THEN b ELSE a

-----------------------------------------------------------------------------
(* Maps and insertion-ordered sets *)

EmptyMap == [k \in {} |-> Undefined]
MapSet(m, k, v) == [x \in (DOMAIN m) \cup {k} |-> IF x = k THEN v ELSE m[x]]
\* a delete that empties the map
MapDelete_Clears(m, k) == EmptyMap

\* m.delete(k)
MapDelete(m, k) == [x \in (DOMAIN m) \ {k} |-> m[x]]
\* Object.assign(a, b) / { ...a, ...b }
Assign(a, b) == [x \in (DOMAIN a) \cup (DOMAIN b) |-> IF x \in DOMAIN b THEN b[x] ELSE a[x]]

SeqToSet(s) == {s[i] : i \in 1..Len(s)}
SetAdd(s, x) == IF x \in SeqToSet(s) THEN s ELSE Append(s, x)
\* the set without x and without the elements added after it
SetDelete_Truncates(s, x) ==
  IF x \in SeqToSet(s)
  THEN SubSeq(s, 1, (CHOOSE i \in 1..Len(s) : s[i] = x) - 1)
  ELSE s

SetDelete(s, x) == SelectSeq(s, LAMBDA y : y # x)

-----------------------------------------------------------------------------
(* Schema builder: the flat value map of a configuration tree *)

IsTagged(value, tag) ==
  /\ TypeOf(value) = "object"
  /\ value.t # "null"
  /\ HasKey(value, "type")
  /\ Get(value, "type") = Str(tag)

isSpringConfig(value) == IsTagged(value, "spring")
isActionConfig(value) == IsTagged(value, "action")
isSelectConfig(value) ==
  /\ IsTagged(value, "select")
  /\ HasKey(value, "options")
  /\ Get(value, "options").t = "array"
isColorConfig(value) == IsTagged(value, "color")
isTextConfig(value) == IsTagged(value, "text")

\* Array.isArray(value) && value.length <= 4 && typeof value[0] === 'number'
IsRangeTuple(value) ==
  /\ value.t = "array"
  /\ Len(value.els) <= 4
  /\ Len(value.els) >= 1
  /\ value.els[1].t = "number"

JoinPath(prefix, key) == IF prefix = "" THEN key ELSE prefix \o "." \o key

Ok(values) == [ok |-> TRUE, values |-> values]
TypeError == [ok |-> FALSE, values |-> EmptyMap]

\* the first option's value, whatever the default
SelectDefault_FirstOnly(value) ==
  LET options == Get(value, "options").els
      firstOption == options[1]
  IN IF options = <<>> THEN TypeError
     ELSE Ok(IF firstOption.t = "string" THEN firstOption ELSE Get(firstOption, "value"))

\* the value flattenValues stores for a select entry; reading .value of the
\* missing first option of an empty options list throws
SelectDefault(value) ==
  LET options == Get(value, "options").els
      firstOption == options[1]
      firstValue == IF firstOption.t = "string" THEN firstOption
                    ELSE Get(firstOption, "value")
  IN IF options = <<>> THEN TypeError
     ELSE Ok(Coalesce(Get(value, "default"), firstValue))

RECURSIVE flattenEntries(_, _)
flattenEntries(ents, prefix) ==
  IF ents = <<>> THEN Ok(EmptyMap)
  ELSE
    LET key == Head(ents)[1]
        value == Head(ents)[2]
        path == JoinPath(prefix, key)
        one(v) == Ok(MapSet(EmptyMap, path, v))
        this ==
          IF IsRangeTuple(value) THEN one(value.els[1])
          ELSE IF TypeOf(value) \in {"number", "boolean", "string"} THEN one(value)
          ELSE IF isSpringConfig(value) THEN one(value)
          ELSE IF isActionConfig(value) THEN one(value)
          ELSE IF isSelectConfig(value) THEN
            (IF SelectDefault(value).ok THEN one(SelectDefault(value).values)
             ELSE TypeError)
          ELSE IF isColorConfig(value) THEN one(Coalesce(Get(value, "default"), Str("#000000")))
          ELSE IF isTextConfig(value) THEN one(Coalesce(Get(value, "default"), Str("")))
          ELSE IF TypeOf(value) = "object" /\ value.t # "null"
            THEN flattenEntries(Entries(value), path)
          ELSE Ok(EmptyMap)
        rest == IF this.ok THEN flattenEntries(Tail(ents), prefix) ELSE TypeError
    IN IF this.ok /\ rest.ok THEN Ok(Assign(this.values, rest.values)) ELSE TypeError

flattenValues(config, prefix) == flattenEntries(Entries(config), prefix)

\* value[i] of an array, undefined past its end (i counts from 0)
Elem(value, i) == IF i < Len(value.els) THEN value.els[i + 1] ELSE Undefined

\* 0.01, the one number of the store that is no multiple of a tenth
Hundredth == [t |-> "number", h |-> 1]

inferRange_FloorOfBand(value) ==
  LET v == value.n
      larger(a, b) == IF a >= b THEN a ELSE b
  IN IF v >= 0 /\ v <= 10 THEN [min |-> Num(0), max |-> Num(10), step |-> Hundredth]
     ELSE IF v >= 0 /\ v <= 100
       THEN [min |-> Num(0), max |-> Num(larger(v * 3, 100)), step |-> Num(1)]
     ELSE IF v >= 0 /\ v <= 1000
       THEN [min |-> Num(0), max |-> Num(larger(v * 3, 1000)), step |-> Num(10)]
     ELSE IF v >= 0
       THEN [min |-> Num(0), max |-> Num(larger(v * 3, 10000)), step |-> Num(100)]
     ELSE [min |-> Num(v * 3), max |-> Num((-v) * 3), step |-> Num(10)]

\* inferRange(value) for a number value, in tenths; value * 3 || d is d
\* only when value * 3 is 0
inferRange(value) ==
  LET v == value.n
      orElse(a, d) == IF a # 0 THEN a ELSE d
  IN IF v >= 0 /\ v <= 10 THEN [min |-> Num(0), max |-> Num(10), step |-> Hundredth]
     ELSE IF v >= 0 /\ v <= 100
       THEN [min |-> Num(0), max |-> Num(orElse(v * 3, 100)), step |-> Num(1)]
     ELSE IF v >= 0 /\ v <= 1000
       THEN [min |-> Num(0), max |-> Num(orElse(v * 3, 1000)), step |-> Num(10)]
     ELSE IF v >= 0
       THEN [min |-> Num(0), max |-> Num(orElse(v * 3, 10000)), step |-> Num(100)]
     ELSE [min |-> Num(v * 3), max |-> Num((-v) * 3), step |-> Num(10)]

\* inferStep(min, max); max - min is NaN unless both are numbers, and every
\* comparison with NaN is false
inferStep(min, max) ==
  IF min.t # "number" \/ max.t # "number" THEN Num(100)
  ELSE LET range == max.n - min.n
       IN IF range <= 10 THEN Hundredth
          ELSE IF range <= 100 THEN Num(1)
          ELSE IF range <= 1000 THEN Num(10)
          ELSE Num(100)

\* the strings of the inputs that match /^#([0-9A-Fa-f]{3}|[0-9A-Fa-f]{6}|[0-9A-Fa-f]{8})$/
HexColors == {"#ff0000", "#fff", "#00ff00aa"}
isHexColor(value) == value.s \in HexColors

\* parseConfig(config, prefix): the control tree of a configuration tree.
\* A control is held with its type, its path and the fields its type adds;
\* its label is left out.
RECURSIVE parseEntries(_, _)
parseEntries(ents, prefix) ==
  IF ents = <<>> THEN <<>>
  ELSE
    LET key == Head(ents)[1]
        value == Head(ents)[2]
        path == JoinPath(prefix, key)
        this ==
          IF IsRangeTuple(value)
            THEN << [type |-> "slider", path |-> path,
                     min |-> Elem(value, 1), max |-> Elem(value, 2),
                     step |-> Coalesce(Elem(value, 3),
                                       inferStep(Elem(value, 1), Elem(value, 2)))] >>
          ELSE IF TypeOf(value) = "number"
            THEN << [type |-> "slider", path |-> path,
                     min |-> inferRange(value).min, max |-> inferRange(value).max,
                     step |-> inferRange(value).step] >>
          ELSE IF TypeOf(value) = "boolean" THEN << [type |-> "toggle", path |-> path] >>
          ELSE IF isSpringConfig(value) THEN << [type |-> "spring", path |-> path] >>
          ELSE IF isActionConfig(value) THEN << [type |-> "action", path |-> path] >>
          ELSE IF isSelectConfig(value)
            THEN << [type |-> "select", path |-> path, options |-> Get(value, "options")] >>
          ELSE IF isColorConfig(value) THEN << [type |-> "color", path |-> path] >>
          ELSE IF isTextConfig(value)
            THEN << [type |-> "text", path |-> path,
                     placeholder |-> Get(value, "placeholder")] >>
          ELSE IF TypeOf(value) = "string"
            THEN << [type |-> IF isHexColor(value) THEN "color" ELSE "text",
                     path |-> path] >>
          ELSE IF TypeOf(value) = "object" /\ value.t # "null"
            THEN << [type |-> "folder", path |-> path,
                     children |-> parseEntries(Entries(value), path)] >>
          ELSE <<>>
    IN this \o parseEntries(Tail(ents), prefix)

parseConfig(config, prefix) == parseEntries(Entries(config), prefix)

-----------------------------------------------------------------------------
(* Value resolver: the typed result of a configuration tree and a flat map *)

\* typeof value === 'object' && value !== null && 'type' in value
\*   && value.type === type
hasType(value, type) == IsTagged(value, type)
isEasingConfig(value) == hasType(value, "easing")

\* flatValues[path]
FlatGet(flatValues, path) ==
  IF path \in DOMAIN flatValues THEN flatValues[path] ELSE Undefined

Thrown == [ok |-> FALSE, values |-> <<>>]

\* typeof first === 'string' ? first : first.value; reading .value of the
\* missing first element of an empty list throws
getFirstOptionValue(options) ==
  IF options = <<>> THEN Thrown
  ELSE IF options[1].t = "string" THEN Ok(options[1])
  ELSE Ok(Get(options[1], "value"))

\* a flat value that is falsy gives way to the fallback (flatValues[path] || x)
Fallback_Falsy(a, b) == IF Truthy(a) THEN a ELSE b

\* flatValues[path] ?? x
Fallback(a, b) == Coalesce(a, b)

\* the key the resolver passes over
ControlKey_None == "_none"

ControlKey == "_collapsed"

RECURSIVE resolveEntries(_, _, _)
resolveEntries(ents, flatValues, prefix) ==
  IF ents = <<>> THEN Ok(<<>>)
  ELSE
    LET key == Head(ents)[1]
        configValue == Head(ents)[2]
        path == JoinPath(prefix, key)
        flat == FlatGet(flatValues, path)
        one(v) == Ok(<< <<key, v>> >>)
        first == getFirstOptionValue(Get(configValue, "options").els)
        nested == resolveEntries(Entries(configValue), flatValues, path)
        this ==
          IF key = ControlKey THEN Ok(<<>>)
          ELSE IF IsRangeTuple(configValue) THEN one(Fallback(flat, configValue.els[1]))
          ELSE IF TypeOf(configValue) \in {"number", "boolean", "string"}
            THEN one(Fallback(flat, configValue))
          ELSE IF isSpringConfig(configValue) \/ isEasingConfig(configValue)
            THEN one(Fallback(flat, configValue))
          ELSE IF isActionConfig(configValue) THEN one(Fallback(flat, configValue))
          ELSE IF isSelectConfig(configValue) THEN
            (IF Get(configValue, "default").t \notin {"undefined", "null"}
             THEN one(Fallback(flat, Get(configValue, "default")))
             ELSE IF first.ok THEN one(Fallback(flat, first.values))
             ELSE Thrown)
          ELSE IF isColorConfig(configValue)
            THEN one(Fallback(flat, Coalesce(Get(configValue, "default"), Str("#000000"))))
          ELSE IF isTextConfig(configValue)
            THEN one(Fallback(flat, Coalesce(Get(configValue, "default"), Str(""))))
          ELSE IF TypeOf(configValue) = "object" /\ configValue.t # "null"
            THEN (IF nested.ok THEN one(Obj(nested.values)) ELSE Thrown)
          ELSE Ok(<<>>)
        rest == IF this.ok THEN resolveEntries(Tail(ents), flatValues, prefix) ELSE Thrown
    IN IF this.ok /\ rest.ok THEN Ok(this.values \o rest.values) ELSE Thrown

\* the result object, or the exception thrown
buildResolvedValues(config, flatValues, prefix) ==
  LET r == resolveEntries(Entries(config), flatValues, prefix)
  IN IF r.ok THEN Ok(Obj(r.values)) ELSE Thrown

-----------------------------------------------------------------------------
(* Inputs of the store calls *)

PanelIds == {"p1", "p2"}
PanelNames == {"Panel"}
PresetNames == {"Snap"}
ValueListeners == {"l1"}
GlobalListeners == {"g1"}
ActionListeners == {"a1"}
ActionPaths == {"run"}
SpringModes == {"simple", "advanced"}

\* { opacity: [0.8, 0, 1], enabled: true }
CfgA == Obj(<< <<"opacity", Arr(<<Num(8), Num(0), Num(10)>>)>>,
               <<"enabled", Bool(TRUE)>> >>)
\* { opacity: [0.3, 0, 1], enabled: true }
CfgB == Obj(<< <<"opacity", Arr(<<Num(3), Num(0), Num(10)>>)>>,
               <<"enabled", Bool(TRUE)>> >>)
Configs == {CfgA, CfgB}

\* the (path, value) arguments of updateValue
Updates == {<<"opacity", Num(5)>>, <<"enabled", Bool(FALSE)>>}
\* the (path, mode) arguments of updateSpringMode
ModeUpdates == {<<"opacity", "advanced">>}

\* preset ids; NullId is null and UndefinedId is undefined
NullId == 0
UndefinedId == 0 - 1
PresetIds == 1..MaxCalls
\* the preset ids passed to loadPreset and deletePreset
PresetIdArgs == 1..3

-----------------------------------------------------------------------------
(* Object identity and generated ids *)

\* Stable empty object for unregistered panels
EMPTY_VALUES == [ref |-> 0, values |-> EmptyMap]

\* The identity of a freshly allocated snapshot object: different from the
\* sentinel and from every snapshot object the store still holds (the one
\* being replaced included).
NewRef ==
  LET used == {snapshots[p].ref : p \in DOMAIN snapshots}
  IN CHOOSE r \in 1..(Cardinality(PanelIds) + 1) :
       r \notin used /\ \A q \in 1..(r - 1) : q \in used

\* a new object that copies none of the keys
Snapshot_Empty(values) == [ref |-> NewRef, values |-> EmptyMap]

\* the object of a panel that already holds these values, if there is one
Snapshot_Shared(values) ==
  IF \E p \in DOMAIN snapshots : snapshots[p].values = values
  THEN CHOOSE sn \in {snapshots[p] : p \in DOMAIN snapshots} : sn.values = values
  ELSE [ref |-> NewRef, values |-> values]

\* { ...values }
Snapshot(values) == [ref |-> NewRef, values |-> values]

\* an id made from the number of presets that exist
NewPresetId_Reused ==
  1 + Cardinality(UNION {{<<p, i>> : i \in 1..Len(presets[p])} : p \in DOMAIN presets})

\* `preset-${Date.now()}-${Math.random().toString(36).slice(2, 9)}`: the
\* time stamp and random suffix are taken never to repeat, so the id is
\* one that no preset of any panel carries.
NewPresetId ==
  LET used == UNION {{presets[p][i].id : i \in 1..Len(presets[p])} : p \in DOMAIN presets}
  IN CHOOSE n \in PresetIds : n \notin used /\ \A q \in 1..(n - 1) : q \in used

-----------------------------------------------------------------------------
(* Reads *)

getPanel(id) == IF id \in DOMAIN panels THEN panels[id] ELSE Undefined
\* a new empty object on every call for an id without a snapshot
getValues_FreshObject(panelId) ==
  IF panelId \in DOMAIN snapshots THEN snapshots[panelId] ELSE Snapshot(EmptyMap)

getValues(panelId) == IF panelId \in DOMAIN snapshots THEN snapshots[panelId] ELSE EMPTY_VALUES
getValue(panelId, path) ==
  IF panelId \in DOMAIN panels /\ path \in DOMAIN panels[panelId].values
  THEN panels[panelId].values[path] ELSE Undefined
getPresets(panelId) == IF panelId \in DOMAIN presets THEN presets[panelId] ELSE <<>>
getActivePresetId(panelId) ==
  IF panelId \in DOMAIN activePreset THEN activePreset[panelId] ELSE NullId
\* a lookup that never finds an active preset
ActiveGet_Absent(panelId) == UndefinedId

\* this.activePreset.get(panelId)
ActiveGet(panelId) ==
  IF panelId \in DOMAIN activePreset THEN activePreset[panelId] ELSE UndefinedId
\* this.baseValues.get(panelId)
BaseGet(panelId) == IF panelId \in DOMAIN baseValues THEN baseValues[panelId] ELSE Undefined

\* the mode kept under the path of the control itself
ModeKey_Bare(path) == path

\* `${path}.__mode`
ModeKey(path) == path \o ".__mode"
getSpringMode(panelId, path) ==
  IF panelId \notin DOMAIN panels THEN Str("simple")
  ELSE IF Truthy(getValue(panelId, ModeKey(path)))
       THEN getValue(panelId, ModeKey(path))
       ELSE Str("simple")

\* presets.find(p => p.id === presetId): index of the first match, 0 if none
FindPreset(list, presetId) ==
  IF \E i \in 1..Len(list) : list[i].id = presetId
  THEN CHOOSE i \in 1..Len(list) :
         list[i].id = presetId /\ \A j \in 1..(i - 1) : list[j].id # presetId
  ELSE 0

-----------------------------------------------------------------------------
(* Notification *)

Invoke(kind, panelId, fns, arg) ==
  [i \in 1..Len(fns) |-> [kind |-> kind, panel |-> panelId, fn |-> fns[i], arg |-> arg]]

\* the value listeners of every panel
notify_AllPanels(panelId) ==
  LET of(p) == IF p \in DOMAIN listeners THEN Invoke("value", p, listeners[p], "") ELSE <<>>
  IN of(panelId) \o of(CHOOSE p \in PanelIds : p # panelId)

\* this.listeners.get(panelId)?.forEach(fn => fn())
notify(panelId) ==
  IF panelId \in DOMAIN listeners
  THEN Invoke("value", panelId, listeners[panelId], "")
  ELSE <<>>

\* this.globalListeners.forEach(fn => fn())
notifyGlobal == Invoke("global", "", globalListeners, "")

\* nothing was notified
NotSeen == [id |-> "", values |-> EMPTY_VALUES, presets |-> <<>>, active |-> NullId]

\* a notification made before the call's writes
ObservedAt_BeforeWrites(panelId, snaps, lists, actives) ==
  [id |-> panelId,
   values |-> getValues(panelId),
   presets |-> getPresets(panelId),
   active |-> getActivePresetId(panelId)]

\* What getValues, getPresets and getActivePresetId return to a listener at
\* the point of the call where notify runs, the three maps being as they
\* are at that point.
ObservedAt(panelId, snaps, lists, actives) ==
  [id |-> panelId,
   values |-> IF panelId \in DOMAIN snaps THEN snaps[panelId] ELSE EMPTY_VALUES,
   presets |-> IF panelId \in DOMAIN lists THEN lists[panelId] ELSE <<>>,
   active |-> IF panelId \in DOMAIN actives THEN actives[panelId] ELSE NullId]

Call(op, id, path, value, presetId, config, ret) ==
  [op |-> op, id |-> id, path |-> path, value |-> value,
   presetId |-> presetId, config |-> config, fn |-> "", n |-> 0, ret |-> ret]

CallFn(op, id, fn) ==
  [Call(op, id, "", Undefined, NullId, Undefined, "ok") EXCEPT !.fn = fn]

\* The unsubscribe closure a subscribe call returns: every call returns a new
\* function object, the n-th one made for this set and listener.
Closure(kind, panelId, listener) ==
  [kind |-> kind, panel |-> panelId, fn |-> listener,
   n |-> 1 + Cardinality({u \in unsubs : u.kind = kind /\ u.panel = panelId /\ u.fn = listener})]

-----------------------------------------------------------------------------
(* The store: construction *)

\* no useDialKit call was made
NoBinding == [live |-> FALSE, config |-> Undefined, value |-> Undefined,
              subs |-> {}, got |-> EmptyMap, stop |-> Undefined,
              onAction |-> "", unsubActions |-> Undefined, destroys |-> 0]
\* no function was applied
NoEval == [fn |-> "", config |-> Undefined, flat |-> EmptyMap, v |-> 0, out |-> Undefined]

\* new DialStoreClass(), no call made yet
Constructed ==
  /\ binding = NoBinding
  /\ panels = EmptyMap
  /\ listeners = EmptyMap
  /\ globalListeners = <<>>
  /\ snapshots = EmptyMap
  /\ actionListeners = EmptyMap
  /\ presets = EmptyMap
  /\ activePreset = EmptyMap
  /\ baseValues = EmptyMap
  /\ unsubs = {}
  /\ calls = <<>>
  /\ seen = NotSeen
  /\ last = Call("new", "", "", Undefined, NullId, Undefined, "ok")
  /\ ncalls = 0
  /\ hist = [defaults |-> EmptyMap, phase |-> 0, id |-> "", pid |-> NullId,
             saved |-> EmptyMap, atB |-> EmptyMap, same |-> FALSE,
             open |-> {}, called |-> {}]

Init ==
  /\ Constructed
  /\ eval = NoEval

-----------------------------------------------------------------------------
(* The store: operations *)

registerPanel(id, name, config) ==
  LET controls == parseConfig(config, "")
      flat == flattenValues(config, "")
      values == flat.values
  IN IF ~flat.ok
     THEN /\ UNCHANGED <<storeVars, subVars, unsubs>>
          /\ calls' = <<>>
          /\ seen' = NotSeen
          /\ last' = Call("registerPanel", id, "", Undefined, NullId, config, "TypeError")
     ELSE /\ panels' = MapSet(panels, id, [id |-> id, name |-> name,
                                           controls |-> controls, values |-> values])
          /\ snapshots' = MapSet(snapshots, id, Snapshot(values))
          /\ baseValues' = MapSet(baseValues, id, values)
          /\ calls' = notifyGlobal
          /\ last' = Call("registerPanel", id, "", Undefined, NullId, config, "ok")
          /\ UNCHANGED <<presets, activePreset, subVars, unsubs>>
          /\ seen' = ObservedAt(id, snapshots', presets', activePreset')

unregisterPanel(id) ==
  /\ panels' = MapDelete(panels, id)
  /\ listeners' = MapDelete(listeners, id)
  /\ snapshots' = MapDelete(snapshots, id)
  /\ calls' = notifyGlobal
  /\ last' = Call("unregisterPanel", id, "", Undefined, NullId, Undefined, "ok")
  /\ UNCHANGED <<presets, activePreset, baseValues, globalListeners, actionListeners, unsubs>>
  /\ seen' = ObservedAt(id, snapshots', presets', activePreset')

\* a write that is not saved to the preset
WritePreset_None(list, i, path, value) == list

\* a write that lands in every preset of the list
WritePreset_All(list, i, path, value) ==
  [j \in 1..Len(list) |-> [list[j] EXCEPT !.values = MapSet(list[j].values, path, value)]]

\* preset.values[path] = value on the preset that find returned
WritePreset(list, i, path, value) ==
  [list EXCEPT ![i].values = MapSet(list[i].values, path, value)]

\* the auto-save of updateValue: the write goes to the active preset, or to
\* the base values when no preset is active
AutoSave(panelId, path, value) ==
  LET activeId == ActiveGet(panelId)
      list == getPresets(panelId)
      found == FindPreset(list, activeId)
  IN IF activeId \notin {NullId, UndefinedId}
     THEN /\ presets' = IF found # 0
                        THEN [presets EXCEPT ![panelId] = WritePreset(list, found, path, value)]
                        ELSE presets
          /\ UNCHANGED baseValues
     ELSE /\ baseValues' = IF panelId \in DOMAIN baseValues
                           THEN [baseValues EXCEPT ![panelId] = MapSet(@, path, value)]
                           ELSE baseValues
          /\ UNCHANGED presets

updateValue(panelId, path, value) ==
  /\ last' = Call("updateValue", panelId, path, value, NullId, Undefined, "ok")
  /\ UNCHANGED <<subVars, unsubs, activePreset>>
  /\ IF panelId \notin DOMAIN panels
     THEN /\ UNCHANGED storeVars
          /\ calls' = <<>>
          /\ seen' = NotSeen
     ELSE LET newValues == MapSet(panels[panelId].values, path, value)
          IN /\ panels' = [panels EXCEPT ![panelId].values = newValues]
             /\ AutoSave(panelId, path, value)
             /\ snapshots' = MapSet(snapshots, panelId, Snapshot(newValues))
             /\ calls' = notify(panelId)
             /\ seen' = ObservedAt(panelId, snapshots', presets', activePreset')

\* a mode write that is auto-saved like a value write
updateSpringMode_AutoSaves(panelId, path, mode) ==
  /\ last' = Call("updateSpringMode", panelId, path, Str(mode), NullId, Undefined, "ok")
  /\ UNCHANGED <<subVars, unsubs, activePreset>>
  /\ IF panelId \notin DOMAIN panels
     THEN /\ UNCHANGED <<panels, snapshots, presets, baseValues>>
          /\ calls' = <<>>
          /\ seen' = NotSeen
     ELSE LET newValues == MapSet(panels[panelId].values, ModeKey(path), Str(mode))
          IN /\ panels' = [panels EXCEPT ![panelId].values = newValues]
             /\ AutoSave(panelId, ModeKey(path), Str(mode))
             /\ snapshots' = MapSet(snapshots, panelId, Snapshot(newValues))
             /\ calls' = notify(panelId)
             /\ seen' = ObservedAt(panelId, snapshots', presets', activePreset')

updateSpringMode(panelId, path, mode) ==
  /\ last' = Call("updateSpringMode", panelId, path, Str(mode), NullId, Undefined, "ok")
  /\ UNCHANGED <<subVars, unsubs, activePreset, presets, baseValues>>
  /\ IF panelId \notin DOMAIN panels
     THEN /\ UNCHANGED <<panels, snapshots>>
          /\ calls' = <<>>
          /\ seen' = NotSeen
     ELSE LET newValues == MapSet(panels[panelId].values, ModeKey(path), Str(mode))
          IN /\ panels' = [panels EXCEPT ![panelId].values = newValues]
             /\ snapshots' = MapSet(snapshots, panelId, Snapshot(newValues))
             /\ calls' = notify(panelId)
             /\ seen' = ObservedAt(panelId, snapshots', presets', activePreset')

subscribe(panelId, listener) ==
  /\ listeners' = MapSet(listeners, panelId,
                         SetAdd(IF panelId \in DOMAIN listeners THEN listeners[panelId] ELSE <<>>,
                                listener))
  /\ unsubs' = unsubs \cup {Closure("value", panelId, listener)}
  /\ calls' = <<>>
  /\ seen' = NotSeen
  /\ last' = [CallFn("subscribe", panelId, listener) EXCEPT !.n = Closure("value", panelId, listener).n]
  /\ UNCHANGED <<storeVars, globalListeners, actionListeners>>

subscribeGlobal(listener) ==
  /\ globalListeners' = SetAdd(globalListeners, listener)
  /\ unsubs' = unsubs \cup {Closure("global", "", listener)}
  /\ calls' = <<>>
  /\ seen' = NotSeen
  /\ last' = [CallFn("subscribeGlobal", "", listener) EXCEPT !.n = Closure("global", "", listener).n]
  /\ UNCHANGED <<storeVars, listeners, actionListeners>>

subscribeActions(panelId, listener) ==
  /\ actionListeners' = MapSet(actionListeners, panelId,
                               SetAdd(IF panelId \in DOMAIN actionListeners
                                      THEN actionListeners[panelId] ELSE <<>>,
                                      listener))
  /\ unsubs' = unsubs \cup {Closure("action", panelId, listener)}
  /\ calls' = <<>>
  /\ seen' = NotSeen
  /\ last' = [CallFn("subscribeActions", panelId, listener) EXCEPT !.n = Closure("action", panelId, listener).n]
  /\ UNCHANGED <<storeVars, listeners, globalListeners>>

\* a call of an unsubscribe closure returned by one of the subscribe operations
unsubscribe(u) ==
  /\ u \in unsubs
  /\ calls' = <<>>
  /\ seen' = NotSeen
  /\ last' = [CallFn("unsubscribe:" \o u.kind, u.panel, u.fn) EXCEPT !.n = u.n]
  /\ UNCHANGED <<storeVars, unsubs>>
  /\ CASE u.kind = "value" ->
            /\ listeners' = IF u.panel \in DOMAIN listeners
                            THEN [listeners EXCEPT ![u.panel] = SetDelete(@, u.fn)]
                            ELSE listeners
            /\ UNCHANGED <<globalListeners, actionListeners>>
       [] u.kind = "global" ->
            /\ globalListeners' = SetDelete(globalListeners, u.fn)
            /\ UNCHANGED <<listeners, actionListeners>>
       [] u.kind = "action" ->
            /\ actionListeners' = IF u.panel \in DOMAIN actionListeners
                                  THEN [actionListeners EXCEPT ![u.panel] = SetDelete(@, u.fn)]
                                  ELSE actionListeners
            /\ UNCHANGED <<listeners, globalListeners>>

\* the action also notifies the panel's value listeners
triggerAction_Notifies(panelId, path) ==
  /\ calls' = (IF panelId \in DOMAIN actionListeners
               THEN Invoke("action", panelId, actionListeners[panelId], path)
               ELSE <<>>) \o notify(panelId)
  /\ last' = Call("triggerAction", panelId, path, Undefined, NullId, Undefined, "ok")
  /\ UNCHANGED <<storeVars, subVars, unsubs>>
  /\ seen' = ObservedAt(panelId, snapshots', presets', activePreset')

\* this.actionListeners.get(panelId)?.forEach(fn => fn(path))
triggerAction(panelId, path) ==
  /\ calls' = IF panelId \in DOMAIN actionListeners
              THEN Invoke("action", panelId, actionListeners[panelId], path)
              ELSE <<>>
  /\ last' = Call("triggerAction", panelId, path, Undefined, NullId, Undefined, "ok")
  /\ UNCHANGED <<storeVars, subVars, unsubs>>
  /\ seen' = ObservedAt(panelId, snapshots', presets', activePreset')

\* a save that takes an absent panel for an empty one instead of throwing
savePreset_NoThrow(panelId, name) ==
  LET id == NewPresetId
      values == IF panelId \in DOMAIN panels THEN panels[panelId].values ELSE EmptyMap
      preset == [id |-> id, name |-> name, values |-> values]
  IN /\ UNCHANGED <<subVars, unsubs, baseValues, panels>>
     /\ presets' = MapSet(presets, panelId, Append(getPresets(panelId), preset))
     /\ activePreset' = MapSet(activePreset, panelId, id)
     /\ snapshots' = MapSet(snapshots, panelId, Snapshot(values))
     /\ calls' = notify(panelId)
     /\ seen' = ObservedAt(panelId, snapshots', presets', activePreset')
     /\ last' = Call("savePreset", panelId, "", Undefined, id, Undefined, "ok")

savePreset(panelId, name) ==
  /\ UNCHANGED <<subVars, unsubs, baseValues, panels>>
  /\ IF panelId \notin DOMAIN panels
     THEN \* throw new Error(`Panel ${panelId} not found`)
          /\ UNCHANGED <<snapshots, presets, activePreset>>
          /\ calls' = <<>>
          /\ seen' = NotSeen
          /\ last' = Call("savePreset", panelId, "", Undefined, NullId, Undefined, "PanelNotFound")
     ELSE LET id == NewPresetId
              preset == [id |-> id, name |-> name, values |-> panels[panelId].values]
              existing == getPresets(panelId)
          IN /\ presets' = MapSet(presets, panelId, Append(existing, preset))
             /\ activePreset' = MapSet(activePreset, panelId, id)
             /\ snapshots' = MapSet(snapshots, panelId, Snapshot(panels[panelId].values))
             /\ calls' = notify(panelId)
             /\ seen' = ObservedAt(panelId, snapshots', presets', activePreset')
             /\ last' = Call("savePreset", panelId, "", Undefined, id, Undefined, "ok")

\* a load that merges the stored values into the live ones
ApplyPreset_Merge(current, preset) == Assign(current, preset.values)

\* panel.values = { ...preset.values }
ApplyPreset(current, preset) == preset.values

loadPreset(panelId, presetId) ==
  /\ last' = Call("loadPreset", panelId, "", Undefined, presetId, Undefined, "ok")
  /\ UNCHANGED <<subVars, unsubs, baseValues, presets>>
  /\ LET list == getPresets(panelId)
         found == FindPreset(list, presetId)
     IN IF panelId \notin DOMAIN panels \/ found = 0
        THEN /\ UNCHANGED <<panels, snapshots, activePreset>>
             /\ calls' = <<>>
             /\ seen' = NotSeen
        ELSE /\ panels' = [panels EXCEPT ![panelId].values =
                                         ApplyPreset(panels[panelId].values, list[found])]
             /\ snapshots' = MapSet(snapshots, panelId,
                                    Snapshot(ApplyPreset(panels[panelId].values, list[found])))
             /\ activePreset' = MapSet(activePreset, panelId, presetId)
             /\ calls' = notify(panelId)
             /\ seen' = ObservedAt(panelId, snapshots', presets', activePreset')

\* a delete that clears the active pointer whichever preset is deleted
deletePreset_ClearsAlways(panelId, presetId) ==
  /\ last' = Call("deletePreset", panelId, "", Undefined, presetId, Undefined, "ok")
  /\ UNCHANGED <<subVars, unsubs, baseValues, panels>>
  /\ presets' = MapSet(presets, panelId,
                       SelectSeq(getPresets(panelId), LAMBDA p : p.id # presetId))
  /\ activePreset' = MapSet(activePreset, panelId, NullId)
  /\ snapshots' = IF panelId \in DOMAIN panels
                  THEN MapSet(snapshots, panelId, Snapshot(panels[panelId].values))
                  ELSE snapshots
  /\ calls' = notify(panelId)
  /\ seen' = ObservedAt(panelId, snapshots', presets', activePreset')

deletePreset(panelId, presetId) ==
  /\ last' = Call("deletePreset", panelId, "", Undefined, presetId, Undefined, "ok")
  /\ UNCHANGED <<subVars, unsubs, baseValues, panels>>
  /\ presets' = MapSet(presets, panelId,
                       SelectSeq(getPresets(panelId), LAMBDA p : p.id # presetId))
  /\ activePreset' = IF ActiveGet(panelId) = presetId
                     THEN MapSet(activePreset, panelId, NullId)
                     ELSE activePreset
  /\ snapshots' = IF panelId \in DOMAIN panels
                  THEN MapSet(snapshots, panelId, Snapshot(panels[panelId].values))
                  ELSE snapshots
  /\ calls' = notify(panelId)
  /\ seen' = ObservedAt(panelId, snapshots', presets', activePreset')

clearActivePreset(panelId) ==
  /\ last' = Call("clearActivePreset", panelId, "", Undefined, NullId, Undefined, "ok")
  /\ UNCHANGED <<subVars, unsubs, baseValues, presets>>
  /\ IF panelId \in DOMAIN panels /\ panelId \in DOMAIN baseValues
     THEN /\ panels' = [panels EXCEPT ![panelId].values = baseValues[panelId]]
          /\ snapshots' = MapSet(snapshots, panelId, Snapshot(baseValues[panelId]))
     ELSE UNCHANGED <<panels, snapshots>>
  /\ activePreset' = MapSet(activePreset, panelId, NullId)
  /\ calls' = notify(panelId)
  /\ seen' = ObservedAt(panelId, snapshots', presets', activePreset')

-----------------------------------------------------------------------------
(* History of a run *)

\* hist.defaults[id]: the live values id had right after its last
\* registration.  hist.phase follows the call sequence savePreset (A),
\* updateValue one or more times, savePreset (B), updateValue any number of
\* times, loadPreset(A) on one panel: 1 after A is saved, 2 after the edits,
\* 3 after B is saved, 4 after A is loaded; hist.saved and hist.atB are the
\* live values at the moment A and B were saved.
Track ==
  LET c == last'
      regd == c.id \in DOMAIN panels
      idle == [hist EXCEPT !.phase = 0, !.id = "", !.pid = NullId,
                           !.saved = EmptyMap, !.atB = EmptyMap]
      scen ==
        CASE c.op = "savePreset" /\ c.ret = "ok" /\ regd /\ hist.phase = 2 /\ c.id = hist.id ->
               [hist EXCEPT !.phase = 3, !.atB = panels[c.id].values]
          [] c.op = "savePreset" /\ c.ret = "ok" /\ regd /\ ~(hist.phase = 2 /\ c.id = hist.id) ->
               [hist EXCEPT !.phase = 1, !.id = c.id, !.pid = c.presetId,
                            !.saved = panels[c.id].values, !.atB = EmptyMap]
          [] c.op = "updateValue" /\ regd /\ hist.phase \in {1, 2} /\ c.id = hist.id ->
               [hist EXCEPT !.phase = 2]
          [] c.op = "updateValue" /\ regd /\ hist.phase = 3 /\ c.id = hist.id -> hist
          [] c.op = "loadPreset" /\ regd /\ hist.phase = 3 /\ c.id = hist.id
               /\ c.presetId = hist.pid ->
               [hist EXCEPT !.phase = 4]
          [] OTHER -> idle
      defs ==
        IF c.op = "registerPanel" /\ c.ret = "ok"
        THEN [scen EXCEPT !.defaults = MapSet(hist.defaults, c.id, panels'[c.id].values)]
        ELSE scen
      \* the call was an updateValue with the value the path already had
      same == /\ c.op = "updateValue"
              /\ regd
              /\ c.path \in DOMAIN panels[c.id].values
              /\ panels[c.id].values[c.path] = c.value
      \* the unsubscribe closure the call returned or was
      kind == CASE c.op \in {"subscribe", "unsubscribe:value"} -> "value"
                [] c.op \in {"subscribeGlobal", "unsubscribe:global"} -> "global"
                [] c.op \in {"subscribeActions", "unsubscribe:action"} -> "action"
                [] OTHER -> ""
      u == [kind |-> kind, panel |-> c.id, fn |-> c.fn, n |-> c.n]
      \* the subscriptions made and not cancelled: made by a subscribe call, ended
      \* by a call of its own unsubscribe closure, and for value listeners by
      \* unregisterPanel
      open ==
        CASE c.op \in {"subscribe", "subscribeGlobal", "subscribeActions"} -> hist.open \cup {u}
          [] kind # "" -> hist.open \ {u}
          [] c.op = "unregisterPanel" ->
               {o \in hist.open : ~(o.kind = "value" /\ o.panel = c.id)}
          [] OTHER -> hist.open
      \* the unsubscribe closures called at least once
      called ==
        IF c.op \in {"unsubscribe:value", "unsubscribe:global", "unsubscribe:action"}
        THEN hist.called \cup {u} ELSE hist.called
  IN [defs EXCEPT !.same = same, !.open = open, !.called = called]

\* one store call of a run
Do(call) ==
  /\ ncalls < MaxCalls
  /\ call
  /\ ncalls' = ncalls + 1
  /\ hist' = Track
  /\ UNCHANGED <<binding, eval>>

-----------------------------------------------------------------------------
(* The store under arbitrary calls on one panel id *)

\* the panel ids the calls of Spec are addressed to
CallIds == {"p1"}

Next ==
  \/ \E id \in CallIds, name \in PanelNames, config \in Configs : Do(registerPanel(id, name, config))
  \/ \E id \in CallIds : Do(unregisterPanel(id))
  \/ \E id \in CallIds, u \in Updates : Do(updateValue(id, u[1], u[2]))
  \/ \E id \in CallIds, m \in ModeUpdates : Do(updateSpringMode(id, m[1], m[2]))
  \/ \E id \in CallIds, l \in ValueListeners : Do(subscribe(id, l))
  \/ \E l \in GlobalListeners : Do(subscribeGlobal(l))
  \/ \E id \in CallIds, l \in ActionListeners : Do(subscribeActions(id, l))
  \/ \E u \in unsubs : Do(unsubscribe(u))
  \/ \E id \in CallIds, path \in ActionPaths : Do(triggerAction(id, path))
  \/ \E id \in CallIds, name \in PresetNames : Do(savePreset(id, name))
  \/ \E id \in CallIds, presetId \in PresetIdArgs : Do(loadPreset(id, presetId))
  \/ \E id \in CallIds, presetId \in PresetIdArgs : Do(deletePreset(id, presetId))
  \/ \E id \in CallIds : Do(clearActivePreset(id))

Spec == Init /\ [][Next]_vars

-----------------------------------------------------------------------------
(* The store under registrations, updates, subscriptions and actions on two
   panel ids with two value listeners; the preset calls go to one of them *)

MaxPanelCalls == 5

\* one store call of such a run
DoPanel(call) ==
  /\ ncalls < MaxPanelCalls
  /\ call
  /\ ncalls' = ncalls + 1
  /\ hist' = Track
  /\ UNCHANGED <<binding, eval>>

PanelValueListeners == {"l1", "l2"}

\* { mode: { type: 'select', options: [] } }
CfgNoOptions ==
  Obj(<< <<"mode", Obj(<< <<"type", Str("select")>>, <<"options", Arr(<<>>)>> >>)>> >>)
PanelConfigs == {CfgB, CfgNoOptions}
PanelUpdates == {<<"opacity", Num(5)>>}

NextPanels ==
  \/ \E id \in PanelIds, config \in PanelConfigs : DoPanel(registerPanel(id, "Panel", config))
  \/ \E id \in PanelIds : DoPanel(unregisterPanel(id))
  \/ \E id \in PanelIds, u \in PanelUpdates : DoPanel(updateValue(id, u[1], u[2]))
  \/ \E id \in PanelIds, l \in PanelValueListeners : DoPanel(subscribe(id, l))
  \/ \E l \in GlobalListeners : DoPanel(subscribeGlobal(l))
  \/ \E id \in PanelIds, l \in ActionListeners : DoPanel(subscribeActions(id, l))
  \/ \E u \in unsubs : DoPanel(unsubscribe(u))
  \/ \E id \in PanelIds, path \in ActionPaths : DoPanel(triggerAction(id, path))
  \/ \E id \in CallIds, m \in ModeUpdates : DoPanel(updateSpringMode(id, m[1], m[2]))
  \/ \E id \in CallIds, name \in PresetNames : DoPanel(savePreset(id, name))
  \/ \E id \in CallIds : DoPanel(loadPreset(id, 1))
  \/ \E id \in CallIds : DoPanel(deletePreset(id, 1))
  \/ \E id \in CallIds : DoPanel(clearActivePreset(id))

SpecPanels == Init /\ [][NextPanels]_vars

-----------------------------------------------------------------------------
(* The Svelte binding: useDialKit and the readable store params.  A readable
   of svelte/store keeps one value; its start function runs when the first
   subscriber arrives and the function start returned runs when the last
   one leaves; a new subscriber is handed the value kept. *)

MaxBindingCalls == 5

\* generatePanelId(name): the one binding of a run has this id
BindingId == "p1"
\* the listener the start function of params subscribes to the store
ParamsListener == "params"
ParamsSubscribers == {"s1", "s2"}

\* buildResolvedValues(config, DialStore.getValues(panelId), '') with the
\* snapshots as given
ResolveNow(config, snaps) ==
  buildResolvedValues(config,
                      (IF BindingId \in DOMAIN snaps THEN snaps[BindingId]
                       ELSE EMPTY_VALUES).values,
                      "").values

\* a call of the binding that makes no store call
Quiet(op) ==
  /\ UNCHANGED <<storeVars, subVars, unsubs>>
  /\ calls' = <<>>
  /\ seen' = NotSeen
  /\ last' = Call(op, BindingId, "", Undefined, NullId, Undefined, "ok")

\* the listener of params, when the store call invoked it, sets the store
\* value anew and hands it to every subscriber of params
Reacted ==
  IF \E i \in 1..Len(calls') : calls'[i].fn = ParamsListener
  THEN [binding EXCEPT
          !.value = ResolveNow(binding.config, snapshots'),
          !.got = [s \in binding.subs |-> ResolveNow(binding.config, snapshots')]]
  ELSE binding

React == binding' = Reacted

\* useDialKit(name, config) without options
useDialKit(name, config) ==
  /\ ~binding.live
  /\ registerPanel(BindingId, name, config)
  /\ binding' =
       IF last'.ret = "ok"
       THEN [NoBinding EXCEPT !.live = TRUE, !.config = config,
                              !.value = ResolveNow(config, snapshots')]
       ELSE binding

\* useDialKit(name, config, { onAction }): registerPanel, then
\* unsubActions = DialStore.subscribeActions(panelId, onAction)
useDialKitOptions(name, config, onAction) ==
  LET controls == parseConfig(config, "")
      flat == flattenValues(config, "")
      values == flat.values
  IN /\ ~binding.live
     /\ flat.ok
     /\ panels' = MapSet(panels, BindingId, [id |-> BindingId, name |-> name,
                                             controls |-> controls, values |-> values])
     /\ snapshots' = MapSet(snapshots, BindingId, Snapshot(values))
     /\ baseValues' = MapSet(baseValues, BindingId, values)
     /\ actionListeners' =
          MapSet(actionListeners, BindingId,
                 SetAdd(IF BindingId \in DOMAIN actionListeners
                        THEN actionListeners[BindingId] ELSE <<>>,
                        onAction))
     /\ unsubs' = unsubs \cup {Closure("action", BindingId, onAction)}
     /\ calls' = notifyGlobal
     /\ UNCHANGED <<presets, activePreset, listeners, globalListeners>>
     /\ seen' = ObservedAt(BindingId, snapshots', presets', activePreset')
     /\ last' = Call("useDialKit", BindingId, "", Undefined, NullId, config, "ok")
     /\ binding' = [NoBinding EXCEPT !.live = TRUE, !.config = config,
                                     !.value = ResolveNow(config, snapshots'),
                                     !.onAction = onAction,
                                     !.unsubActions = Closure("action", BindingId, onAction)]

\* params.subscribe(run) by the subscriber s
paramsSubscribe(s) ==
  /\ binding.live
  /\ s \notin binding.subs
  /\ IF binding.subs = {}
     THEN /\ subscribe(BindingId, ParamsListener)
          /\ binding' = [binding EXCEPT
                           !.subs = {s},
                           !.got = MapSet(EmptyMap, s, binding.value),
                           !.stop = Closure("value", BindingId, ParamsListener)]
     ELSE /\ Quiet("params.subscribe")
          /\ binding' = [binding EXCEPT
                           !.subs = @ \cup {s},
                           !.got = MapSet(@, s, binding.value)]

\* the unsubscribe function params.subscribe returned to s
paramsUnsubscribe(s) ==
  /\ s \in binding.subs
  /\ IF binding.subs = {s}
     THEN /\ unsubscribe(binding.stop)
          /\ binding' = [binding EXCEPT !.subs = {}, !.got = EmptyMap, !.stop = Undefined]
     ELSE /\ Quiet("params.unsubscribe")
          /\ binding' = [binding EXCEPT !.subs = @ \ {s}, !.got = MapDelete(@, s)]

\* binding.set(path, value), and an edit made in the panel
bindingSet(path, value) ==
  /\ binding.live
  /\ updateValue(BindingId, path, value)
  /\ React

\* DialStore.triggerAction(panelId, path), made by the panel's action button
bindingAction(path) ==
  /\ binding.live
  /\ triggerAction(BindingId, path)
  /\ React

\* a destroy that leaves the action subscription in place
destroy_KeepsActions ==
  /\ binding.live
  /\ panels' = MapDelete(panels, BindingId)
  /\ listeners' = MapDelete(listeners, BindingId)
  /\ snapshots' = MapDelete(snapshots, BindingId)
  /\ calls' = notifyGlobal
  /\ UNCHANGED <<presets, activePreset, baseValues, globalListeners, actionListeners, unsubs>>
  /\ seen' = ObservedAt(BindingId, snapshots', presets', activePreset')
  /\ last' = Call("destroy", BindingId, "", Undefined, NullId, Undefined, "ok")
  /\ binding' = [Reacted EXCEPT !.destroys = @ + 1]

\* binding.destroy(): unsubActions?.(), then
\* DialStore.unregisterPanel(panelId)
destroy ==
  /\ binding.live
  /\ actionListeners' =
       IF binding.unsubActions # Undefined /\ BindingId \in DOMAIN actionListeners
       THEN [actionListeners EXCEPT ![BindingId] = SetDelete(@, binding.onAction)]
       ELSE actionListeners
  /\ panels' = MapDelete(panels, BindingId)
  /\ listeners' = MapDelete(listeners, BindingId)
  /\ snapshots' = MapDelete(snapshots, BindingId)
  /\ calls' = notifyGlobal
  /\ UNCHANGED <<presets, activePreset, baseValues, globalListeners, unsubs>>
  /\ seen' = ObservedAt(BindingId, snapshots', presets', activePreset')
  /\ last' = Call("destroy", BindingId, "", Undefined, NullId, Undefined, "ok")
  /\ binding' = [Reacted EXCEPT !.destroys = @ + 1]

DoBinding(call) ==
  /\ ncalls < MaxBindingCalls
  /\ call
  /\ ncalls' = ncalls + 1
  /\ hist' = Track
  /\ UNCHANGED eval

NextBinding ==
  \/ \E name \in PanelNames, config \in Configs : DoBinding(useDialKit(name, config))
  \/ \E name \in PanelNames, config \in Configs, onAction \in ActionListeners :
       DoBinding(useDialKitOptions(name, config, onAction))
  \/ \E path \in ActionPaths : DoBinding(bindingAction(path))
  \/ \E s \in ParamsSubscribers : DoBinding(paramsSubscribe(s))
  \/ \E s \in ParamsSubscribers : DoBinding(paramsUnsubscribe(s))
  \/ \E u \in Updates : DoBinding(bindingSet(u[1], u[2]))
  \/ DoBinding(destroy)

SpecBinding == Init /\ [][NextBinding]_vars

-----------------------------------------------------------------------------
(* The value resolver and the schema builder applied to configuration trees *)

\* { zero: 0, off: false, empty: '', blur: [0, 0, 10] }
CfgFalsy ==
  Obj(<< <<"zero", Num(0)>>, <<"off", Bool(FALSE)>>, <<"empty", Str("")>>,
         <<"blur", Arr(<<Num(0), Num(0), Num(100)>>)>> >>)
SpringTime == Obj(<< <<"type", Str("spring")>>, <<"visualDuration", Num(3)>>,
                     <<"bounce", Num(2)>> >>)
EaseOut == Obj(<< <<"type", Str("easing")>>, <<"duration", Num(3)>> >>)
\* { move: { type: 'spring', visualDuration: 0.3, bounce: 0.2 },
\*   fade: { type: 'easing', duration: 0.3 }, run: { type: 'action' } }
CfgTagged ==
  Obj(<< <<"move", SpringTime>>, <<"fade", EaseOut>>,
         <<"run", Obj(<< <<"type", Str("action")>> >>)>> >>)
\* { mode: { type: 'select', options: ['a', 'b'], default: 'b' },
\*   size: { type: 'select', options: [{ value: 's', label: 'S' }, 'm'] } }
CfgSelect ==
  Obj(<< <<"mode", Obj(<< <<"type", Str("select")>>,
                          <<"options", Arr(<<Str("a"), Str("b")>>)>>,
                          <<"default", Str("b")>> >>)>>,
         <<"size", Obj(<< <<"type", Str("select")>>,
                          <<"options",
                            Arr(<<Obj(<< <<"value", Str("s")>>, <<"label", Str("S")>> >>),
                                  Str("m")>>)>> >>)>> >>)
\* { tint: { type: 'color' }, ink: { type: 'color', default: '#fff' },
\*   note: { type: 'text' }, title: { type: 'text', default: 'hi' } }
CfgColorText ==
  Obj(<< <<"tint", Obj(<< <<"type", Str("color")>> >>)>>,
         <<"ink", Obj(<< <<"type", Str("color")>>, <<"default", Str("#fff")>> >>)>>,
         <<"note", Obj(<< <<"type", Str("text")>> >>)>>,
         <<"title", Obj(<< <<"type", Str("text")>>, <<"default", Str("hi")>> >>)>> >>)
\* { _collapsed: true, shadow: { _collapsed: false, x: [0.3, 0, 1],
\*   inner: { y: 2 } }, on: true }
CfgNested ==
  Obj(<< <<"_collapsed", Bool(TRUE)>>,
         <<"shadow", Obj(<< <<"_collapsed", Bool(FALSE)>>,
                            <<"x", Arr(<<Num(3), Num(0), Num(10)>>)>>,
                            <<"inner", Obj(<< <<"y", Num(20)>> >>)>> >>)>>,
         <<"on", Bool(TRUE)>> >>)
ResolverConfigs == {CfgA, CfgFalsy, CfgTagged, CfgSelect, CfgColorText, CfgNested}

\* the paths the resolver looks up for a configuration tree
RECURSIVE LookupPaths(_, _)
LookupPaths(ents, prefix) ==
  IF ents = <<>> THEN {}
  ELSE LET key == Head(ents)[1]
           value == Head(ents)[2]
           path == JoinPath(prefix, key)
           group == /\ value.t = "object"
                    /\ ~HasKey(value, "type")
       IN (IF key = ControlKey THEN {}
           ELSE IF group THEN LookupPaths(value.ent, path)
           ELSE {path})
          \cup LookupPaths(Tail(ents), prefix)

\* values a flat map may hold at a path: falsy ones and others
FlatValues == {Num(0), Bool(FALSE), Str(""), Str("live"), SpringTime}
\* keys of a flat map that are no path of the tree
ExtraKeys == {"move.__mode", "ghost", "_collapsed", "shadow"}

\* flat value maps for a configuration tree: any of its paths present or
\* absent, all present ones holding the same value, with or without the
\* keys that are no path of the tree
FlatsOf(config) ==
  {[p \in D \cup E |-> IF p \in E THEN Str("advanced") ELSE x] :
     D \in SUBSET LookupPaths(Entries(config), ""),
     x \in FlatValues,
     E \in {{}, ExtraKeys}}

InitResolver ==
  /\ Constructed
  /\ \E config \in ResolverConfigs :
       \E flat \in FlatsOf(config) :
         eval = [NoEval EXCEPT !.config = config, !.flat = flat]

\* buildResolvedValues(config, flat, '')
Resolve ==
  /\ eval.fn = ""
  /\ eval' = [eval EXCEPT !.fn = "buildResolvedValues",
                          !.out = buildResolvedValues(eval.config, eval.flat, "")]
  /\ UNCHANGED runVars

\* buildResolvedValues(config, flat, '') with the flat map flattenValues
\* makes of config at registration
RoundTrip ==
  /\ eval.fn = ""
  /\ eval.flat = EmptyMap
  /\ LET flat == flattenValues(eval.config, "")
     IN eval' = [eval EXCEPT !.fn = "roundTrip",
                             !.flat = flat.values,
                             !.out = IF flat.ok
                                     THEN buildResolvedValues(eval.config, flat.values, "")
                                     ELSE Thrown]
  /\ UNCHANGED runVars

NextResolver == Resolve \/ RoundTrip

SpecResolver == InitResolver /\ [][NextResolver]_vars

-----------------------------------------------------------------------------
(* The schema builder applied to bare numbers and to array entries *)

\* bare numbers run from -MaxNumber to MaxNumber, in tenths
MaxNumber == 1200
NumberInputs == (0 - MaxNumber)..MaxNumber

\* array entries: none to five elements, a first element inside, below and
\* above [min, max] or no number, the step given, null or left out
TupleFirsts == {Num(0 - 5), Num(5), Num(15), Str("a")}
TupleTails == {<<Num(0), mx, st, Num(1)>> : mx \in {Num(10), Num(200)}, st \in {Num(1), Null}}
TupleInputs ==
  {<<>>} \cup {<<d>> \o SubSeq(r, 1, k) : d \in TupleFirsts, r \in TupleTails, k \in 0..4}

\* { 'a.b': 1, a: { b: 2 } }
CfgDotted == Obj(<< <<"a.b", Num(10)>>, <<"a", Obj(<< <<"b", Num(20)>> >>)>> >>)

\* values outside the accepted shapes: null, a function, ['a', 'b']
OddValues == {Null, Fn, Arr(<<Str("a"), Str("b")>>)}

\* { x: [...], on: true } and { box: { x: [...] } }, likewise with x one of
\* the values outside the accepted shapes
SchemaConfigs ==
  {Obj(<< <<"x", Arr(els)>>, <<"on", Bool(TRUE)>> >>) : els \in TupleInputs}
    \cup {Obj(<< <<"box", Obj(<< <<"x", Arr(els)>> >>)>> >>) : els \in TupleInputs}
    \cup {Obj(<< <<"x", odd>>, <<"on", Bool(TRUE)>> >>) : odd \in OddValues}
    \cup {Obj(<< <<"box", Obj(<< <<"x", odd>> >>)>> >>) : odd \in OddValues}
    \cup ResolverConfigs \cup {CfgDotted}

InitSchema ==
  /\ Constructed
  /\ \/ \E v \in NumberInputs : eval = [NoEval EXCEPT !.v = v]
     \/ \E config \in SchemaConfigs : eval = [NoEval EXCEPT !.config = config]

\* inferRange(v)
InferRange ==
  /\ eval.fn = ""
  /\ eval.config = Undefined
  /\ eval' = [eval EXCEPT !.fn = "inferRange", !.out = inferRange(Num(eval.v))]
  /\ UNCHANGED runVars

\* parseConfig(config, '')
ParseConfig ==
  /\ eval.fn = ""
  /\ eval.config # Undefined
  /\ eval' = [eval EXCEPT !.fn = "parseConfig", !.out = parseConfig(eval.config, "")]
  /\ UNCHANGED runVars

\* flattenValues(config, '')
FlattenValues ==
  /\ eval.fn = ""
  /\ eval.config # Undefined
  /\ LET flat == flattenValues(eval.config, "")
     IN eval' = [eval EXCEPT !.fn = "flattenValues",
                             !.flat = flat.values,
                             !.out = IF flat.ok THEN Ok(flat.values) ELSE Thrown]
  /\ UNCHANGED runVars

NextSchema == InferRange \/ ParseConfig \/ FlattenValues

SpecSchema == InitSchema /\ [][NextSchema]_vars

-----------------------------------------------------------------------------
(* The spring control of a panel: SpringControl is rendered for each control
   of type spring with the value the panel's snapshot holds at its path, and
   its two handlers call the store *)

MaxSpringCalls == 5

\* one call of a run with the spring control
DoSpring(call) ==
  /\ ncalls < MaxSpringCalls
  /\ call
  /\ ncalls' = ncalls + 1
  /\ hist' = Track
  /\ UNCHANGED <<binding, eval>>

\* the controls of a control tree that are no folder
RECURSIVE LeafControls(_)
LeafControls(controls) ==
  IF controls = <<>> THEN {}
  ELSE (IF Head(controls).type = "folder" THEN LeafControls(Head(controls).children)
        ELSE {Head(controls)})
       \cup LeafControls(Tail(controls))

TimeFields == {"visualDuration", "bounce"}
PhysicsFields == {"stiffness", "damping", "mass"}

\* const { k1, k2, ...rest } = obj
Rest(obj, keys) == Obj(SelectSeq(obj.ent, LAMBDA e : e[1] \notin keys))

\* { ...obj, [key]: value }
Spread(obj, key, value) ==
  IF HasKey(obj, key)
  THEN Obj([i \in 1..Len(obj.ent) |->
              IF obj.ent[i][1] = key THEN <<key, value>> ELSE obj.ent[i]])
  ELSE Obj(Append(obj.ent, <<key, value>>))

\* the spring configuration handleModeChange passes to onChange
ModeChanged(spring, newMode) ==
  IF newMode = "simple"
  THEN Spread(Spread(Spread(Rest(spring, PhysicsFields), "type", Str("spring")),
                     "visualDuration", Coalesce(Get(spring, "visualDuration"), Num(3))),
              "bounce", Coalesce(Get(spring, "bounce"), Num(2)))
  ELSE Spread(Spread(Spread(Spread(Rest(spring, TimeFields), "type", Str("spring")),
                            "stiffness", Coalesce(Get(spring, "stiffness"), Num(2000))),
                     "damping", Coalesce(Get(spring, "damping"), Num(250))),
              "mass", Coalesce(Get(spring, "mass"), Num(10)))

\* the spring configuration handleUpdate passes to onChange
Updated(spring, isSimpleMode, key, value) ==
  Spread(Rest(spring, IF isSimpleMode THEN PhysicsFields ELSE TimeFields), key, value)

\* SpringControl is on screen for panelId and path, its spring prop an object
Rendered(panelId, path) ==
  /\ panelId \in DOMAIN panels
  /\ \E control \in LeafControls(panels[panelId].controls) :
       control.type = "spring" /\ control.path = path
  /\ FlatGet(getValues(panelId).values, path).t = "object"

\* handleModeChange(newMode): DialStore.updateSpringMode(panelId, path,
\* newMode), then onChange, which is DialStore.updateValue(panelId, path, v)
handleModeChange(panelId, path, newMode) ==
  /\ Rendered(panelId, path)
  /\ LET spring == FlatGet(getValues(panelId).values, path)
         v == ModeChanged(spring, newMode)
         moded == MapSet(panels[panelId].values, ModeKey(path), Str(newMode))
         newValues == MapSet(moded, path, v)
         first == NewRef
         used == {snapshots[p].ref : p \in DOMAIN snapshots \ {panelId}} \cup {first}
         second == CHOOSE r \in 1..(Cardinality(PanelIds) + 2) : r \notin used
     IN /\ panels' = [panels EXCEPT ![panelId].values = newValues]
        /\ AutoSave(panelId, path, v)
        /\ snapshots' = MapSet(snapshots, panelId, [ref |-> second, values |-> newValues])
        /\ calls' = notify(panelId) \o notify(panelId)
        /\ UNCHANGED <<subVars, unsubs, activePreset>>
        /\ seen' = ObservedAt(panelId, snapshots', presets', activePreset')
        /\ last' = Call("handleModeChange", panelId, path, Str(newMode), NullId, Undefined, "ok")

\* handleUpdate(key, value) from a slider of the mode on screen
handleUpdate(panelId, path, key, value) ==
  /\ Rendered(panelId, path)
  /\ LET isSimpleMode == getSpringMode(panelId, path) = Str("simple")
     IN /\ key \in (IF isSimpleMode THEN TimeFields ELSE PhysicsFields)
        /\ updateValue(panelId, path,
                       Updated(FlatGet(getValues(panelId).values, path), isSimpleMode, key, value))

\* { type: 'spring', stiffness: 200, damping: 25, mass: 1 }
SpringPhysics == Obj(<< <<"type", Str("spring")>>, <<"stiffness", Num(2000)>>,
                        <<"damping", Num(250)>>, <<"mass", Num(10)>> >>)
\* { type: 'spring', visualDuration: 0.3, stiffness: 200 }
SpringBoth == Obj(<< <<"type", Str("spring")>>, <<"visualDuration", Num(3)>>,
                     <<"stiffness", Num(2000)>> >>)
\* { type: 'spring' }
SpringBare == Obj(<< <<"type", Str("spring")>> >>)
\* { move: <spring> }
SpringConfigs ==
  {Obj(<< <<"move", s>> >>) : s \in {SpringTime, SpringPhysics, SpringBoth, SpringBare}}
SpringPath == "move"
Modes == {"simple", "advanced"}
\* the (key, value) arguments of handleUpdate
FieldEdits == {<<"bounce", Num(4)>>, <<"stiffness", Num(3000)>>}
\* the (path, value) arguments of an updateValue call made by other code,
\* with a path that is in no configuration
StrayUpdates == {<<"ghost", Num(1)>>}

NextSpring ==
  \/ \E id \in CallIds, config \in SpringConfigs : DoSpring(registerPanel(id, "Panel", config))
  \/ \E id \in CallIds : DoSpring(unregisterPanel(id))
  \/ \E id \in CallIds, mode \in Modes : DoSpring(updateSpringMode(id, SpringPath, mode))
  \/ \E id \in CallIds, mode \in Modes : DoSpring(handleModeChange(id, SpringPath, mode))
  \/ \E id \in CallIds, e \in FieldEdits : DoSpring(handleUpdate(id, SpringPath, e[1], e[2]))
  \/ \E id \in CallIds, u \in StrayUpdates : DoSpring(updateValue(id, u[1], u[2]))
  \/ \E id \in CallIds, l \in ValueListeners : DoSpring(subscribe(id, l))
  \/ \E l \in GlobalListeners : DoSpring(subscribeGlobal(l))
  \/ \E id \in CallIds, name \in PresetNames : DoSpring(savePreset(id, name))
  \/ \E id \in CallIds : DoSpring(loadPreset(id, 1))
  \/ \E id \in CallIds : DoSpring(clearActivePreset(id))

SpecSpring == Init /\ [][NextSpring]_vars

-----------------------------------------------------------------------------
(* Listeners that call the store while they are notified.  notify runs the
   listeners of the panel one after the other inside the store call; a
   listener that calls updateValue starts a nested call, which writes,
   installs its snapshot and runs the listeners again before the outer
   notification goes on.  The whole store call, nested calls included, is
   one step. *)

MaxNestedCalls == 5

\* listeners that write when they are invoked, each with the (path, value)
\* it writes unless the path already holds the value:
\*   r1 = () => { if (getValue(id, 'opacity') !== 0.5) updateValue(id, 'opacity', 0.5) }
\*   r2 = () => { if (getValue(id, 'enabled') !== false) updateValue(id, 'enabled', false) }
Writers == [r1 |-> <<"opacity", Num(5)>>, r2 |-> <<"enabled", Bool(FALSE)>>]
NestedListeners == {"l1", "r1", "r2"}
\* the (path, value) arguments of the outer updateValue calls
NestedUpdates == {<<"opacity", Num(2)>>, <<"enabled", Bool(TRUE)>>}

\* the store state of one panel while a call runs: live values, base values,
\* preset list, the snapshot installed last, the number of snapshots the
\* call has installed, and the listener invocations made, each with the
\* number of the snapshot that was installed when it ran
Running(panelId) ==
  [id |-> panelId,
   values |-> panels[panelId].values,
   base |-> BaseGet(panelId),
   presets |-> getPresets(panelId),
   snapshot |-> getValues(panelId).values,
   installed |-> 0,
   log |-> <<>>]

\* the auto-save of updateValue, on the state of a running call
AutoSaved(st, path, value) ==
  LET activeId == ActiveGet(st.id)
      found == FindPreset(st.presets, activeId)
  IN IF activeId \notin {NullId, UndefinedId}
     THEN (IF found # 0
           THEN [st EXCEPT !.presets = WritePreset(st.presets, found, path, value)]
           ELSE st)
     ELSE (IF st.base # Undefined
           THEN [st EXCEPT !.base = MapSet(st.base, path, value)]
           ELSE st)

RECURSIVE Notifying(_, _)
RECURSIVE Updating(_, _, _)

\* a nested updateValue that writes and installs its snapshot, and leaves
\* the notification to the one that is under way
Updating_Quiet(st, path, value) ==
  LET written == AutoSaved([st EXCEPT !.values = MapSet(st.values, path, value)], path, value)
      snapped == [written EXCEPT !.snapshot = written.values, !.installed = st.installed + 1]
  IN IF st.installed = 0 /\ st.id \in DOMAIN listeners
     THEN Notifying(listeners[st.id], snapped) ELSE snapped

\* updateValue(id, path, value) on the registered panel of a running call:
\* write, auto-save, install the snapshot, notify
Updating(st, path, value) ==
  LET written == AutoSaved([st EXCEPT !.values = MapSet(st.values, path, value)], path, value)
      snapped == [written EXCEPT !.snapshot = written.values, !.installed = st.installed + 1]
  IN IF st.id \in DOMAIN listeners THEN Notifying(listeners[st.id], snapped) ELSE snapped

\* this.listeners.get(panelId)?.forEach(fn => fn()), from the listener at
\* the head of fns on
Notifying(fns, st) ==
  IF fns = <<>> THEN st
  ELSE LET fn == Head(fns)
           ran == [st EXCEPT !.log = Append(st.log, [fn |-> fn, at |-> st.installed])]
           writes == /\ fn \in DOMAIN Writers
                     /\ FlatGet(ran.values, Writers[fn][1]) # Writers[fn][2]
           after == IF writes THEN Updating(ran, Writers[fn][1], Writers[fn][2]) ELSE ran
       IN Notifying(Tail(fns), after)

\* the identity of the snapshot object after n installs, each a new object
RECURSIVE RefAfter(_, _, _)
RefAfter(panelId, ref, n) ==
  IF n = 0 THEN ref
  ELSE LET used == {snapshots[p].ref : p \in DOMAIN snapshots \ {panelId}} \cup {ref}
       IN RefAfter(panelId,
                   CHOOSE r \in 1..(Cardinality(PanelIds) + 1) :
                     r \notin used /\ \A q \in 1..(r - 1) : q \in used,
                   n - 1)

\* updateValue(panelId, path, value) with the listeners that write
updateValueNested(panelId, path, value) ==
  /\ last' = Call("updateValue", panelId, path, value, NullId, Undefined, "ok")
  /\ UNCHANGED <<subVars, unsubs, activePreset>>
  /\ IF panelId \notin DOMAIN panels
     THEN /\ UNCHANGED storeVars
          /\ calls' = <<>>
          /\ seen' = NotSeen
          /\ eval' = NoEval
     ELSE LET done == Updating(Running(panelId), path, value)
          IN /\ panels' = [panels EXCEPT ![panelId].values = done.values]
             /\ baseValues' = IF panelId \in DOMAIN baseValues
                              THEN [baseValues EXCEPT ![panelId] = done.base]
                              ELSE baseValues
             /\ presets' = IF panelId \in DOMAIN presets
                           THEN [presets EXCEPT ![panelId] = done.presets]
                           ELSE presets
             /\ snapshots' = MapSet(snapshots, panelId,
                                    [ref |-> RefAfter(panelId, getValues(panelId).ref,
                                                      done.installed),
                                     values |-> done.snapshot])
             /\ calls' = [i \in 1..Len(done.log) |->
                            [kind |-> "value", panel |-> panelId,
                             fn |-> done.log[i].fn, arg |-> ""]]
             /\ seen' = ObservedAt(panelId, snapshots', presets', activePreset')
             /\ eval' = [NoEval EXCEPT !.fn = "notify", !.v = done.installed,
                                       !.out = done.log]

\* one store call of such a run
DoNested(call) ==
  /\ ncalls < MaxNestedCalls
  /\ call
  /\ ncalls' = ncalls + 1
  /\ hist' = Track
  /\ UNCHANGED binding

NextNested ==
  \/ \E id \in CallIds, config \in Configs :
       DoNested(registerPanel(id, "Panel", config) /\ eval' = NoEval)
  \/ \E id \in CallIds, l \in NestedListeners : DoNested(subscribe(id, l) /\ eval' = NoEval)
  \/ \E u \in unsubs : DoNested(unsubscribe(u) /\ eval' = NoEval)
  \/ \E id \in CallIds, name \in PresetNames : DoNested(savePreset(id, name) /\ eval' = NoEval)
  \/ \E id \in CallIds, u \in NestedUpdates : DoNested(updateValueNested(id, u[1], u[2]))

SpecNested == Init /\ [][NextNested]_vars

-----------------------------------------------------------------------------
(* Claims *)

\* the invocations a notification of panel id's subscribers consists of
Notified(id) == {[kind |-> "value", panel |-> id, fn |-> l, arg |-> ""] :
                   l \in IF id \in DOMAIN listeners THEN SeqToSet(listeners[id]) ELSE {}}

\* the stored values of the presets of panel id other than preset presetId
OtherPresets(list, presetId) == SelectSeq(list, LAMBDA p : p.id # presetId)

RestoredDefaults(id) ==
  /\ panels[id].values = hist.defaults[id]
  /\ getActivePresetId(id) = NullId

\* C2: after any sequence of store operations on a registered panel,
\* clearActivePreset(id) makes the live values equal to the original
\* defaults the panel had at registration and sets the active preset
\* pointer to null.
C2_ClearRestoresDefaults ==
  (last.op = "clearActivePreset" /\ last.id \in DOMAIN panels) => RestoredDefaults(last.id)

\* C3 as stated: savePreset A, one or more updateValue, savePreset B, then
\* loadPreset(A) makes the live values equal to the values the panel had at
\* the moment A was saved.
C3_LoadRestoresSavedMoment ==
  hist.phase = 4 => panels[hist.id].values = hist.saved

\* C3 amended: savePreset A, one or more updateValue, savePreset B, any
\* number of updateValue, then loadPreset(A) makes the live values equal to
\* the values the panel had at the moment B was saved: the edits made while
\* A was the active preset are written through to A, the edits made after B
\* was saved are not.
C3_LoadRestoresWrittenThrough ==
  hist.phase = 4 => panels[hist.id].values = hist.atB

\* C3 witness: A was loaded after edits between the two saves and an edit
\* after the second save
C3_Witness ==
  /\ hist.phase = 4
  /\ hist.saved # hist.atB
  /\ \E i \in 1..Len(presets[hist.id]) :
       /\ presets[hist.id][i].id # hist.pid
       /\ presets[hist.id][i].values # hist.atB

C5_SavePresetAbsentThrows ==
  [][(last'.op = "savePreset" /\ last'.id \notin DOMAIN panels) =>
       /\ last'.ret = "PanelNotFound"
       /\ UNCHANGED <<storeVars, subVars>>
       /\ calls' = <<>>]_vars

\* C5 witness: savePreset threw for an id that was registered earlier and
\* still has presets and an action listener
C5_Witness ==
  /\ last.op = "savePreset"
  /\ last.ret = "PanelNotFound"
  /\ last.id \notin DOMAIN panels
  /\ getPresets(last.id) # <<>>
  /\ last.id \in DOMAIN actionListeners

\* C6: loadPreset(id, presetId) on a registered panel with an existing
\* preset replaces the live values wholesale by the preset's stored values,
\* installs a new snapshot, makes that preset active and notifies the
\* panel's subscribers; if the panel or the preset does not exist it changes
\* no state and notifies nobody.
C6_LoadPresetReplaces ==
  [][last'.op = "loadPreset" =>
       LET id == last'.id
           pid == last'.presetId
           list == getPresets(id)
       IN IF id \in DOMAIN panels /\ \E k \in 1..Len(list) : list[k].id = pid
          THEN /\ \A k \in 1..Len(list) : list[k].id = pid =>
                    /\ panels'[id].values = list[k].values
                    /\ snapshots'[id].values = list[k].values
               /\ snapshots'[id].ref # getValues(id).ref
               /\ activePreset'[id] = pid
               /\ presets' = presets
               /\ SeqToSet(calls') = Notified(id)
               /\ Len(calls') = Cardinality(Notified(id))
          ELSE /\ UNCHANGED <<storeVars, subVars>>
               /\ calls' = <<>>]_vars

\* C6 witness: a preset was just loaded, a subscriber was told, and a path
\* stored in another preset of the panel is no longer among the live values
C6_Witness ==
  /\ last.op = "loadPreset"
  /\ last.id \in DOMAIN panels
  /\ getActivePresetId(last.id) = last.presetId
  /\ calls # <<>>
  /\ \E i \in 1..Len(presets[last.id]) :
       (DOMAIN presets[last.id][i].values) \ (DOMAIN panels[last.id].values) # {}

\* C7: deletePreset(id, presetId) removes that preset from the panel's list
\* and leaves the live values unchanged; the active pointer becomes null
\* when the deleted preset was the active one and is unchanged otherwise.
C7_DeletePresetKeepsValues ==
  [][last'.op = "deletePreset" =>
       LET id == last'.id
           pid == last'.presetId
       IN /\ presets'[id] = OtherPresets(getPresets(id), pid)
          /\ panels' = panels
          /\ IF ActiveGet(id) = pid
             THEN activePreset'[id] = NullId
             ELSE activePreset' = activePreset]_vars

\* C7 witness: the active preset was just deleted and the live values are
\* still the edited ones, not the base values
C7_Witness ==
  /\ last.op = "deletePreset"
  /\ last.id \in DOMAIN panels
  /\ last.id \in DOMAIN activePreset
  /\ activePreset[last.id] = NullId
  /\ \E path \in DOMAIN baseValues[last.id] :
       panels[last.id].values[path] # baseValues[last.id][path]

\* what getPresets, getActivePresetId and getValues return after the step
PresetsAfter(id) == IF id \in DOMAIN presets' THEN presets'[id] ELSE <<>>
ActiveAfter(id) == IF id \in DOMAIN activePreset' THEN activePreset'[id] ELSE NullId
ValuesAfter(id) == IF id \in DOMAIN snapshots' THEN snapshots'[id] ELSE EMPTY_VALUES

\* C8: updateValue, loadPreset, deletePreset and triggerAction with a panel
\* id that is not currently registered are silent no-ops: they change no
\* store state (values, snapshots, presets, active pointer) and invoke no
\* listener of any kind, also none left from an earlier registration.
C8_AbsentPanelNoOp ==
  [][(/\ last'.op \in {"updateValue", "loadPreset", "deletePreset", "triggerAction"}
      /\ last'.id \notin DOMAIN panels) =>
       /\ panels' = panels
       /\ baseValues' = baseValues
       /\ \A id \in PanelIds :
            /\ PresetsAfter(id) = getPresets(id)
            /\ ActiveAfter(id) = getActivePresetId(id)
            /\ ValuesAfter(id) = getValues(id)
       /\ calls' = <<>>]_vars

\* C9: on a registered panel, loadPreset and deletePreset with a preset id
\* that is not in the panel's list are no-ops: preset list, active pointer,
\* live values and the snapshot reference are unchanged and no subscriber
\* is notified.
C9_UnknownPresetNoOp ==
  [][(/\ last'.op \in {"loadPreset", "deletePreset"}
      /\ last'.id \in DOMAIN panels
      /\ \A k \in 1..Len(getPresets(last'.id)) : getPresets(last'.id)[k].id # last'.presetId) =>
       /\ PresetsAfter(last'.id) = getPresets(last'.id)
       /\ ActiveAfter(last'.id) = getActivePresetId(last'.id)
       /\ panels' = panels
       /\ ValuesAfter(last'.id) = getValues(last'.id)
       /\ calls' = <<>>]_vars

\* C10: after every registerPanel(id, name, config), a re-registration
\* included, the live values, the snapshot and the base values equal the
\* config's defaults, the preset list of id is empty and the active preset
\* pointer of id is null; global subscribers are notified.
C10_RegisterResets ==
  (last.op = "registerPanel" /\ last.ret = "ok") =>
    LET id == last.id
        defaults == flattenValues(last.config, "").values
    IN /\ panels[id].values = defaults
       /\ getValues(id).values = defaults
       /\ baseValues[id] = defaults
       /\ getPresets(id) = <<>>
       /\ getActivePresetId(id) = NullId
       /\ SeqToSet(calls) = {[kind |-> "global", panel |-> "", fn |-> l, arg |-> ""] :
                               l \in SeqToSet(globalListeners)}

\* C11: after unregisterPanel(id) the store holds nothing for id: getPanel is
\* undefined, getValues is the sentinel, getPresets is empty,
\* getActivePresetId is null, the base values are gone and no value or
\* action subscriber of id remains; the global subscribers were invoked.
C11_UnregisterRemovesAll ==
  LET id == last.id
  IN last.op = "unregisterPanel" =>
       /\ getPanel(id) = Undefined
       /\ getValues(id) = EMPTY_VALUES
       /\ getPresets(id) = <<>>
       /\ getActivePresetId(id) = NullId
       /\ id \notin DOMAIN baseValues
       /\ id \notin DOMAIN listeners
       /\ id \in DOMAIN actionListeners => actionListeners[id] = <<>>
       /\ calls = notifyGlobal

\* the store calls that write nothing: the subscriptions, their unsubscribe
\* closures, triggerAction, and a call that threw
NonMutating(c) ==
  \/ c.op \in {"subscribe", "subscribeGlobal", "subscribeActions", "triggerAction",
               "unsubscribe:value", "unsubscribe:global", "unsubscribe:action"}
  \/ c.ret # "ok"

\* C12: getValues(id) returns the same reference before and after a call
\* that mutates nothing, and for every id that is not registered it returns
\* the one shared empty sentinel EMPTY_VALUES, whatever calls were made with
\* that id before; a registered panel's snapshot is never the sentinel.
C12_GetValuesStable ==
  [][/\ \A id \in PanelIds :
          /\ id \notin DOMAIN panels' => getValues(id)' = EMPTY_VALUES
          /\ id \in DOMAIN panels' => getValues(id)'.ref # EMPTY_VALUES.ref
     /\ NonMutating(last') => \A id \in PanelIds : getValues(id)' = getValues(id)]_vars

\* p1 was registered, unregistered and then addressed by a call that leaves
\* its snapshot alone; p1 and the never registered p2 share the sentinel
C12_Witness ==
  /\ last.op \in {"triggerAction", "deletePreset", "updateValue"}
  /\ last.id = "p1"
  /\ "p1" \notin DOMAIN panels
  /\ "p1" \in DOMAIN baseValues
  /\ getPresets("p1") # <<>>
  /\ getValues("p1") = EMPTY_VALUES
  /\ getValues("p2") = getValues("p1")

\* C13: after updateValue(id, path, v) on a registered panel getValues(id)
\* has v at path and is a reference different from the one getValues(id)
\* returned before the call, also when v is the value path already had.
C13_UpdateFreshSnapshot ==
  [][LET id == last'.id
     IN last'.op = "updateValue" /\ id \in DOMAIN panels =>
          /\ last'.path \in DOMAIN ValuesAfter(id).values
          /\ ValuesAfter(id).values[last'.path] = last'.value
          /\ ValuesAfter(id).ref # getValues(id).ref]_vars

\* an updateValue that stored the value the path already had
C13_Witness ==
  /\ last.op = "updateValue"
  /\ last.id \in DOMAIN panels
  /\ hist.same
  /\ getValues(last.id).values[last.path] = last.value

MutationOps ==
  {"updateValue", "updateSpringMode", "savePreset", "loadPreset", "deletePreset",
   "clearActivePreset"}

\* C14: in every mutation call (updateValue, updateSpringMode, savePreset,
\* loadPreset, deletePreset, clearActivePreset) that invokes a listener,
\* what the listener reads with getValues, getPresets and getActivePresetId
\* while it is notified is the state the call leaves behind.
C14_NotifyAfterWrites ==
  [][LET id == last'.id
     IN last'.op \in MutationOps /\ calls' # <<>> =>
          seen' = [id |-> id,
                   values |-> ValuesAfter(id),
                   presets |-> PresetsAfter(id),
                   active |-> ActiveAfter(id)]]_vars

\* a listener notified by clearActivePreset reads the null active pointer
\* and the new snapshot while the panel still has presets
C14_Witness ==
  /\ last.op = "clearActivePreset"
  /\ calls # <<>>
  /\ seen.id = last.id
  /\ seen.active = NullId
  /\ seen.presets # <<>>
  /\ seen.values = getValues(last.id)
  /\ seen.values # EMPTY_VALUES

\* the listeners of one of the store's three kinds of listener sets
ListenersOf(kind, panelId) ==
  CASE kind = "value" ->
         (IF panelId \in DOMAIN listeners THEN SeqToSet(listeners[panelId]) ELSE {})
    [] kind = "global" -> (IF panelId = "" THEN SeqToSet(globalListeners) ELSE {})
    [] kind = "action" ->
         (IF panelId \in DOMAIN actionListeners THEN SeqToSet(actionListeners[panelId]) ELSE {})

\* how often the last call invoked the listener fn of the set (kind, panelId)
InvokedTimes(cs, kind, panelId, fn) ==
  Cardinality({i \in 1..Len(cs) :
                 cs[i].kind = kind /\ cs[i].panel = panelId /\ cs[i].fn = fn})

\* C15: updateValue(id, path, v) on a registered panel invokes every listener
\* subscribed to panel id exactly once and nothing else (no global listener,
\* no action listener, no listener of another panel); only registerPanel
\* and unregisterPanel invoke global listeners.
C15_UpdateNotifiesPanelOnly ==
  [][LET id == last'.id
     IN /\ last'.op = "updateValue" /\ id \in DOMAIN panels =>
             /\ \A l \in ListenersOf("value", id) : InvokedTimes(calls', "value", id, l) = 1
             /\ Len(calls') = Cardinality(ListenersOf("value", id))
             /\ \A i \in 1..Len(calls') : calls'[i].kind = "value" /\ calls'[i].panel = id
        /\ last'.op \notin {"registerPanel", "unregisterPanel"} =>
             \A i \in 1..Len(calls') : calls'[i].kind # "global"]_vars

\* an updateValue on p1 that invoked the two listeners of p1 and not the
\* global listener that is subscribed
C15_Witness ==
  /\ last.op = "updateValue"
  /\ last.id = "p1"
  /\ "p1" \in DOMAIN panels
  /\ Len(calls) = 2
  /\ ListenersOf("value", "p1") = {"l1", "l2"}
  /\ ListenersOf("global", "") # {}

\* the (kind, panel id, listener) triples the subscribe calls are made with
ListenerSlots ==
  ({"value"} \X PanelIds \X PanelValueListeners)
    \cup ({"global"} \X {""} \X GlobalListeners)
    \cup ({"action"} \X PanelIds \X ActionListeners)
SubscribeOp(kind) ==
  CASE kind = "value" -> "subscribe"
    [] kind = "global" -> "subscribeGlobal"
    [] kind = "action" -> "subscribeActions"
UnsubscribeOps == {"unsubscribe:value", "unsubscribe:global", "unsubscribe:action"}

\* the call c notifies the listener set (kind, panelId)
Notifies(c, kind, panelId) ==
  CASE kind = "value" -> c.op = "updateValue" /\ c.id = panelId /\ panelId \in DOMAIN panels
    [] kind = "action" -> c.op = "triggerAction" /\ c.id = panelId
    [] kind = "global" ->
         /\ panelId = ""
         /\ \/ c.op = "registerPanel" /\ c.ret = "ok"
            \/ c.op = "unregisterPanel"

\* C16: the unsubscribe function returned by subscribe, subscribeGlobal or
\* subscribeActions removes the listener it was made for and no other: the
\* listener is in its set no more, every other listener of every set stays,
\* a listener enters a set only by a subscribe call for it, and a call that
\* notifies a set invokes exactly the listeners that are in it, each once.
C16_UnsubscribeRemovesExactly ==
  [][/\ last'.op \in UnsubscribeOps =>
          \A slot \in ListenerSlots :
            IF last'.op = "unsubscribe:" \o slot[1] /\ last'.id = slot[2] /\ last'.fn = slot[3]
            THEN slot[3] \notin ListenersOf(slot[1], slot[2])'
            ELSE slot[3] \in ListenersOf(slot[1], slot[2])'
                   <=> slot[3] \in ListenersOf(slot[1], slot[2])
     /\ \A slot \in ListenerSlots :
          /\ slot[3] \notin ListenersOf(slot[1], slot[2])
          /\ slot[3] \in ListenersOf(slot[1], slot[2])'
          => last'.op = SubscribeOp(slot[1]) /\ last'.id = slot[2] /\ last'.fn = slot[3]
     /\ \A i \in 1..Len(calls') :
          /\ <<calls'[i].kind, calls'[i].panel, calls'[i].fn>> \in ListenerSlots
          /\ calls'[i].fn \in ListenersOf(calls'[i].kind, calls'[i].panel)
     /\ \A slot \in ListenerSlots :
          Notifies(last', slot[1], slot[2]) /\ slot[3] \in ListenersOf(slot[1], slot[2])
          => InvokedTimes(calls', slot[1], slot[2], slot[3]) = 1]_vars

\* after the unsubscribe function of l1 on p1 was called, an updateValue on
\* p1 invoked the remaining listener l2 and not l1
C16_Witness ==
  /\ last.op = "updateValue"
  /\ last.id = "p1"
  /\ [kind |-> "value", panel |-> "p1", fn |-> "l1", n |-> 1] \in hist.called
  /\ ListenersOf("value", "p1") = {"l2"}
  /\ InvokedTimes(calls, "value", "p1", "l2") = 1
  /\ InvokedTimes(calls, "value", "p1", "l1") = 0

\* C17: subscriptions are independent, also two subscriptions of the same
\* listener function to the same panel: as long as the unsubscribe function
\* of a subscription was not called (and the panel not unregistered), its
\* listener is in the panel's listener set and so is notified.
C17_SubscriptionsIndependent ==
  \A u \in hist.open : u.kind = "value" => u.fn \in ListenersOf("value", u.panel)

\* the unsubscribe closure the call c is
ClosureOf(c) ==
  [kind |-> CASE c.op = "unsubscribe:value" -> "value"
              [] c.op = "unsubscribe:global" -> "global"
              [] c.op = "unsubscribe:action" -> "action"
              [] OTHER -> "",
   panel |-> c.id, fn |-> c.fn, n |-> c.n]

\* C18: a second or later call of an unsubscribe function changes no store
\* state; it does not cancel a subscription made with the same listener
\* and panel id after the first call.
C18_UnsubscribeIdempotent ==
  [][last'.op \in UnsubscribeOps /\ ClosureOf(last') \in hist.called =>
       UNCHANGED <<storeVars, subVars>>]_vars

\* C19: triggerAction(id, path) invokes every action listener of panel id
\* exactly once with path as argument and nothing else (no value listener,
\* no global listener, no action listener of another panel), and changes
\* nothing in the store: values, snapshots, base values, presets, active
\* pointer and the listener sets are as before.
C19_TriggerInvokesActionListeners ==
  [][LET id == last'.id
     IN last'.op = "triggerAction" =>
          /\ \A l \in ListenersOf("action", id) : InvokedTimes(calls', "action", id, l) = 1
          /\ Len(calls') = Cardinality(ListenersOf("action", id))
          /\ \A i \in 1..Len(calls') :
               /\ calls'[i].kind = "action"
               /\ calls'[i].panel = id
               /\ calls'[i].arg = last'.path
          /\ UNCHANGED <<storeVars, subVars>>]_vars

\* a triggerAction on p1 that invoked p1's action listener with the path,
\* while p2 has an action listener, p1 a value listener and a global
\* listener is subscribed
C19_Witness ==
  /\ last.op = "triggerAction"
  /\ last.id = "p1"
  /\ calls = <<[kind |-> "action", panel |-> "p1", fn |-> "a1", arg |-> last.path]>>
  /\ ListenersOf("action", "p2") # {}
  /\ ListenersOf("value", "p1") # {}
  /\ ListenersOf("global", "") # {}

\* C20: no store operation raises an exception to its caller except
\* savePreset on a panel that is not registered; registerPanel completes
\* normally for every configuration tree, also one with an entry
\* { type: 'select', options: [] }.
C20_OnlySavePresetThrows ==
  last.ret # "ok" => last.op = "savePreset" /\ last.id \notin DOMAIN panels

\* C21: params delivers live values: while the binding's panel is
\* registered, the value every subscriber of params has received last is
\* buildResolvedValues(config, DialStore.getValues(panelId), '') for the
\* store's current values, whether or not params had a subscriber when the
\* values were updated.
C21_ParamsLive ==
  binding.live /\ BindingId \in DOMAIN panels =>
    \A s \in binding.subs : binding.got[s] = ResolveNow(binding.config, snapshots)

\* the tag of a configuration entry, "" when it has none
TagOf(value) ==
  IF value.t = "object" /\ HasKey(value, "type") /\ Get(value, "type").t = "string"
  THEN Get(value, "type").s
  ELSE ""

\* the literal default of a leaf of a configuration tree: tuple -> element
\* 0, literal -> itself, spring/easing/action -> the config object, choice
\* -> default or first option's value, color -> default or '#000000', text
\* -> default or ''
DefaultOf(value) ==
  LET options == Get(value, "options").els
      given == Get(value, "default")
      has == given.t \notin {"undefined", "null"}
  IN CASE value.t = "array" -> value.els[1]
       [] value.t \in {"number", "boolean", "string"} -> value
       [] TagOf(value) \in {"spring", "easing", "action"} -> value
       [] TagOf(value) = "select" ->
            (IF has THEN given
             ELSE IF options[1].t = "string" THEN options[1]
             ELSE Get(options[1], "value"))
       [] TagOf(value) = "color" -> (IF has THEN given ELSE Str("#000000"))
       [] TagOf(value) = "text" -> (IF has THEN given ELSE Str(""))

\* the entry is a group of further entries
IsGroup(value) == value.t = "object" /\ TagOf(value) = ""

\* the tree of literal defaults of a configuration tree; the reserved
\* control key is no value of the tree
RECURSIVE DefaultEntries(_)
DefaultEntries(ents) ==
  IF ents = <<>> THEN <<>>
  ELSE LET key == Head(ents)[1]
           value == Head(ents)[2]
       IN (IF key = "_collapsed" THEN <<>>
           ELSE IF IsGroup(value) THEN << <<key, Obj(DefaultEntries(value.ent))>> >>
           ELSE << <<key, DefaultOf(value)>> >>)
          \o DefaultEntries(Tail(ents))

\* C22: round trip: buildResolvedValues(config, flat, '') with flat the flat
\* value map flattenValues makes of config is the tree of literal defaults
\* of config.
C22_RoundTrip ==
  eval.fn = "roundTrip" => eval.out = Ok(Obj(DefaultEntries(eval.config.ent)))

\* the round trip of the tree with the two choices, one with a default and
\* one whose first option is an object
C22_Witness ==
  /\ eval.fn = "roundTrip"
  /\ eval.config = CfgSelect
  /\ eval.out.ok
  /\ Get(eval.out.values, "mode") = Str("b")
  /\ Get(eval.out.values, "size") = Str("s")

\* the leaves of a configuration tree the resolver gives a value: the keys
\* leading to each and its configuration entry
RECURSIVE LeavesOf(_, _)
LeavesOf(ents, keys) ==
  IF ents = <<>> THEN {}
  ELSE LET key == Head(ents)[1]
           value == Head(ents)[2]
       IN (IF key = "_collapsed" THEN {}
           ELSE IF IsGroup(value) THEN LeavesOf(value.ent, Append(keys, key))
           ELSE {[keys |-> Append(keys, key), cfg |-> value]})
          \cup LeavesOf(Tail(ents), keys)

RECURSIVE PathOf(_)
PathOf(keys) ==
  IF Len(keys) = 1 THEN keys[1] ELSE keys[1] \o "." \o PathOf(Tail(keys))

\* result.k1.k2...
RECURSIVE At(_, _)
At(result, keys) ==
  IF keys = <<>> THEN result ELSE At(Get(result, Head(keys)), Tail(keys))

\* C23: for every leaf of the configuration tree the resolver returns the
\* flat value when the leaf's path is in the flat map, also when that value
\* is 0, false or '', and the leaf's literal default only when the path is
\* absent; a spring, easing or action object is returned whole, never merged.
C23_FlatValueWins ==
  eval.fn = "buildResolvedValues" =>
    /\ eval.out.ok
    /\ \A leaf \in LeavesOf(eval.config.ent, <<>>) :
         At(eval.out.values, leaf.keys) =
           IF PathOf(leaf.keys) \in DOMAIN eval.flat
           THEN eval.flat[PathOf(leaf.keys)]
           ELSE DefaultOf(leaf.cfg)

\* a resolution with the flat value '' at the path of the literal 0, the
\* flat value '' at the path of a tuple, and two paths absent
C23_Witness ==
  /\ eval.fn = "buildResolvedValues"
  /\ eval.config = CfgFalsy
  /\ DOMAIN eval.flat = {"zero", "blur"}
  /\ eval.flat["zero"] = Str("")
  /\ Get(eval.out.values, "zero") = Str("")
  /\ Get(eval.out.values, "blur") = Str("")
  /\ Get(eval.out.values, "off") = Bool(FALSE)
  /\ Get(eval.out.values, "empty") = Str("")

KeysOf(ents) == [i \in 1..Len(ents) |-> ents[i][1]]
NotControl(entry) == entry[1] # "_collapsed"

\* the result has the keys of the configuration entries other than
\* '_collapsed', in their order, and so has every group in it
RECURSIVE Mirrors(_, _)
Mirrors(result, ents) ==
  LET kept == SelectSeq(ents, NotControl)
  IN /\ result.t = "object"
     /\ KeysOf(result.ent) = KeysOf(kept)
     /\ \A i \in 1..Len(kept) :
          IsGroup(kept[i][2]) => Mirrors(result.ent[i][2], kept[i][2].ent)

\* C24: the resolved result has the shape of the configuration tree only:
\* keys of the flat map that are no leaf path of the tree (such as keys
\* ending in '.__mode') are not in the result, and the key '_collapsed' is
\* left out at every nesting level.
C24_ResultMirrorsConfig ==
  eval.fn = "buildResolvedValues" =>
    /\ eval.out.ok
    /\ Mirrors(eval.out.values, eval.config.ent)

\* a resolution of the nested tree with a flat map holding '_collapsed',
\* a '.__mode' key and the path of a group
C24_Witness ==
  /\ eval.fn = "buildResolvedValues"
  /\ eval.config = CfgNested
  /\ ExtraKeys \subseteq DOMAIN eval.flat
  /\ ~HasKey(eval.out.values, "_collapsed")
  /\ ~HasKey(Get(eval.out.values, "shadow"), "_collapsed")
  /\ KeysOf(eval.out.values.ent) = <<"shadow", "on">>
  /\ KeysOf(Get(eval.out.values, "shadow").ent) = <<"x", "inner">>


Larger(a, b) == IF a >= b THEN a ELSE b

\* C25 as stated: the inferred bounds of a bare number v are [0, 1] for
\* 0 <= v <= 1, [0, max(3v, 10)] for 1 < v <= 10, [0, max(3v, 100)] for
\* 10 < v <= 100, [0, max(3v, 1000)] for v > 100 and [3v, -3v] for v < 0
C25_BoundsFloored ==
  eval.fn = "inferRange" =>
    LET v == eval.v
        r == eval.out
    IN /\ (0 <= v /\ v <= 10) => (r.min = Num(0) /\ r.max = Num(10))
       /\ (10 < v /\ v <= 100) => (r.min = Num(0) /\ r.max = Num(Larger(3 * v, 100)))
       /\ (100 < v /\ v <= 1000) => (r.min = Num(0) /\ r.max = Num(Larger(3 * v, 1000)))
       /\ v > 1000 => (r.min = Num(0) /\ r.max = Num(Larger(3 * v, 10000)))
       /\ v < 0 => (r.min = Num(3 * v) /\ r.max = Num(0 - 3 * v))

\* C25, amended: the inferred bounds of a bare number v are [0, 1] for
\* 0 <= v <= 1, [0, 3v] for every v > 1 and [3v, -3v] for v < 0
C25_BoundsTripled ==
  eval.fn = "inferRange" =>
    LET v == eval.v
        r == eval.out
    IN /\ (0 <= v /\ v <= 10) => (r.min = Num(0) /\ r.max = Num(10))
       /\ v > 10 => (r.min = Num(0) /\ r.max = Num(3 * v))
       /\ v < 0 => (r.min = Num(3 * v) /\ r.max = Num(0 - 3 * v))

\* inferRange(2) has returned the maximum 6
C25_Witness ==
  /\ eval.fn = "inferRange"
  /\ eval.v = 20
  /\ eval.out.max = Num(60)

\* C26: updateSpringMode(id, path, mode) on a registered panel stores mode
\* under path + '.__mode' and nothing else, installs a new snapshot object
\* holding the live values and invokes every subscriber of panel id once and
\* no one else; on an absent panel it changes nothing and invokes no one.
\* After every call getSpringMode(id, path) is the mode the live values hold
\* under that key, and 'simple' when they hold none or the panel is absent.
C26_SpringMode ==
  [][/\ \A id \in CallIds :
          last'.op = "updateSpringMode" /\ last'.id = id =>
            IF id \in DOMAIN panels
            THEN /\ panels'[id].values =
                      [k \in DOMAIN panels[id].values \cup {last'.path \o ".__mode"} |->
                         IF k = last'.path \o ".__mode" THEN last'.value
                         ELSE panels[id].values[k]]
                 /\ snapshots'[id].values = panels'[id].values
                 /\ id \in DOMAIN snapshots => snapshots'[id].ref # snapshots[id].ref
                 /\ \A l \in ListenersOf("value", id) : InvokedTimes(calls', "value", id, l) = 1
                 /\ Len(calls') = Cardinality(ListenersOf("value", id))
                 /\ \A i \in 1..Len(calls') : calls'[i].kind = "value" /\ calls'[i].panel = id
                 /\ getSpringMode(id, SpringPath)' = last'.value
                 /\ UNCHANGED <<presets, activePreset, baseValues, subVars>>
            ELSE /\ UNCHANGED <<storeVars, subVars>>
                 /\ calls' = <<>>
     /\ \A id \in CallIds :
          getSpringMode(id, SpringPath)' =
            IF /\ id \in DOMAIN panels'
               /\ (SpringPath \o ".__mode") \in DOMAIN panels'[id].values
            THEN panels'[id].values[SpringPath \o ".__mode"]
            ELSE Str("simple")]_vars

\* the mode was set to simple on a registered panel with a value subscriber
\* and a global subscriber: the call invoked the value subscriber alone and
\* getSpringMode returns the stored 'simple'
C26_Witness ==
  /\ last.op = "updateSpringMode"
  /\ last.value = Str("simple")
  /\ "p1" \in DOMAIN panels
  /\ Len(calls) = 1
  /\ globalListeners # <<>>
  /\ getSpringMode("p1", SpringPath) = Str("simple")
  /\ panels["p1"].values[SpringPath \o ".__mode"] = Str("simple")

\* C27: no orphan values: every key of a registered panel's live flat value
\* map is the path of a leaf of the panel's control tree or such a path
\* followed by '.__mode'
C27_NoOrphanValues ==
  \A id \in DOMAIN panels :
    \A k \in DOMAIN panels[id].values :
      \E control \in LeafControls(panels[id].controls) :
        k = control.path \/ k = control.path \o ".__mode"

\* the range tuples (default, min, max[, step]) of a configuration tree with
\* min <= max, each with its path
RECURSIVE RangeTuples(_, _)
RangeTuples(ents, prefix) ==
  IF ents = <<>> THEN {}
  ELSE LET key == Head(ents)[1]
           value == Head(ents)[2]
           path == JoinPath(prefix, key)
       IN (IF /\ value.t = "array"
              /\ Len(value.els) \in {3, 4}
              /\ \A i \in 1..3 : value.els[i].t = "number"
              /\ value.els[2].n <= value.els[3].n
           THEN {[path |-> path, min |-> value.els[2].n, max |-> value.els[3].n]}
           ELSE IF value.t = "object" /\ ~HasKey(value, "type")
             THEN RangeTuples(value.ent, path)
           ELSE {})
          \cup RangeTuples(Tail(ents), prefix)

\* C28: for every range tuple (default, min, max) of a registered
\* configuration the initial flat value lies in [min, max]
C28_DefaultClamped ==
  eval.fn = "flattenValues" =>
    \A r \in RangeTuples(eval.config.ent, "") :
      /\ r.path \in DOMAIN eval.flat
      /\ eval.flat[r.path].t = "number"
      /\ r.min <= eval.flat[r.path].n
      /\ eval.flat[r.path].n <= r.max

\* the spring configuration carries a field of the family
Carries(spring, fields) == \E f \in fields : HasKey(spring, f)

\* C29: the stored value of a spring control never carries time-domain
\* fields (visualDuration, bounce) and physics fields (stiffness, damping,
\* mass) at the same time
C29_OneFamily ==
  \A id \in DOMAIN panels :
    \A control \in LeafControls(panels[id].controls) :
      (/\ control.type = "spring"
       /\ control.path \in DOMAIN panels[id].values
       /\ panels[id].values[control.path].t = "object") =>
        ~(/\ Carries(panels[id].values[control.path], TimeFields)
          /\ Carries(panels[id].values[control.path], PhysicsFields))

\* the array entries of a configuration tree, each with its path
RECURSIVE ArrayEntries(_, _)
ArrayEntries(ents, prefix) ==
  IF ents = <<>> THEN {}
  ELSE LET key == Head(ents)[1]
           value == Head(ents)[2]
           path == JoinPath(prefix, key)
       IN (IF value.t = "array" THEN {[path |-> path, els |-> value.els]}
           ELSE IF value.t = "object" /\ ~HasKey(value, "type")
             THEN ArrayEntries(value.ent, path)
           ELSE {})
          \cup ArrayEntries(Tail(ents), prefix)

\* C30: an array entry becomes a range control exactly when it has 2 to 4
\* elements and a numeric first element; the control's min is element 1, its
\* max element 2, its step element 3 when that is given and the step
\* inferred from min and max otherwise
C30_RangeOfTwoToFour ==
  eval.fn = "parseConfig" =>
    \A a \in ArrayEntries(eval.config.ent, "") :
      LET n == Len(a.els)
          isRange == n \in 2..4 /\ a.els[1].t = "number"
          sliders == {c \in LeafControls(eval.out) : c.path = a.path /\ c.type = "slider"}
          at(i) == IF i < n THEN a.els[i + 1] ELSE Undefined
      IN /\ sliders # {} <=> isRange
         /\ \A c \in sliders :
              /\ c.min = at(1)
              /\ c.max = at(2)
              /\ c.step = IF at(3).t \in {"undefined", "null"}
                          THEN inferStep(at(1), at(2)) ELSE at(3)

\* every control of a control tree, the folders and their children included
RECURSIVE AllControls(_)
AllControls(controls) ==
  IF controls = <<>> THEN {}
  ELSE {Head(controls)}
       \cup (IF Head(controls).type = "folder" THEN AllControls(Head(controls).children)
             ELSE {})
       \cup AllControls(Tail(controls))

\* the value is outside the accepted shapes: null, a function, or an array
\* with elements none of which is a number
Unrecognized(value) ==
  \/ value.t \in {"null", "function"}
  \/ /\ value.t = "array"
     /\ value.els # <<>>
     /\ \A i \in 1..Len(value.els) : value.els[i].t # "number"

\* the entries of a configuration tree with such a value, each with its path
RECURSIVE UnrecognizedEntries(_, _)
UnrecognizedEntries(ents, prefix) ==
  IF ents = <<>> THEN {}
  ELSE LET key == Head(ents)[1]
           value == Head(ents)[2]
           path == JoinPath(prefix, key)
       IN (IF Unrecognized(value) THEN {[path |-> path, value |-> value]}
           ELSE IF value.t = "object" /\ ~HasKey(value, "type")
             THEN UnrecognizedEntries(value.ent, path)
           ELSE {})
          \cup UnrecognizedEntries(Tail(ents), prefix)

\* the path of the entry and the paths below it
AtOrBelow(e) ==
  {e.path} \cup (IF e.value.t = "array"
                 THEN {e.path \o "." \o IndexKey(i - 1) : i \in 1..Len(e.value.els)}
                 ELSE {})

\* C31: an entry whose value is null, a function or an array of non-numeric
\* elements yields no control (not even a folder) and no flat value at or
\* below its path
C31_UnrecognizedDropped ==
  \A e \in (IF eval.fn \in {"parseConfig", "flattenValues"}
            THEN UnrecognizedEntries(eval.config.ent, "") ELSE {}) :
    /\ eval.fn = "parseConfig" =>
         \A c \in AllControls(eval.out) : c.path \notin AtOrBelow(e)
    /\ eval.fn = "flattenValues" =>
         /\ eval.out.ok
         /\ DOMAIN eval.flat \cap AtOrBelow(e) = {}

\* the paths of the leaf controls of a control tree, in order
RECURSIVE LeafPaths(_)
LeafPaths(controls) ==
  IF controls = <<>> THEN <<>>
  ELSE (IF Head(controls).type = "folder" THEN LeafPaths(Head(controls).children)
        ELSE <<Head(controls).path>>)
       \o LeafPaths(Tail(controls))

\* the literal leaves (number, boolean, string) of a configuration tree,
\* each with its dot-joined path
RECURSIVE LiteralLeaves(_, _)
LiteralLeaves(ents, prefix) ==
  IF ents = <<>> THEN {}
  ELSE LET key == Head(ents)[1]
           value == Head(ents)[2]
           path == JoinPath(prefix, key)
       IN (IF value.t \in {"number", "boolean", "string"}
           THEN {[path |-> path, value |-> value]}
           ELSE IF value.t = "object" /\ ~HasKey(value, "type")
             THEN LiteralLeaves(value.ent, path)
           ELSE {})
          \cup LiteralLeaves(Tail(ents), prefix)

\* C32: two different leaves of one configuration tree never get the same
\* path: the leaf controls have pairwise different paths, and the flat value
\* map holds every literal leaf's own value at its path
C32_PathsUnique ==
  /\ eval.fn = "parseConfig" =>
       LET ps == LeafPaths(eval.out)
       IN \A i, j \in 1..Len(ps) : i # j => ps[i] # ps[j]
  /\ eval.fn = "flattenValues" /\ eval.out.ok =>
       \A leaf \in LiteralLeaves(eval.config.ent, "") :
         /\ leaf.path \in DOMAIN eval.flat
         /\ eval.flat[leaf.path] = leaf.value

\* C33: each panel id has one active preset pointer, and a pointer that is
\* not null is the id of a preset in that panel's preset list
C33_ActiveNeverDangles ==
  \A id \in DOMAIN activePreset :
    activePreset[id] # NullId =>
      \E i \in 1..Len(getPresets(id)) : getPresets(id)[i].id = activePreset[id]

\* the panel was unregistered while a preset was active: the pointer stays
\* and so does the preset it names
C33_Witness ==
  /\ last.op = "unregisterPanel"
  /\ "p1" \notin DOMAIN panels
  /\ getActivePresetId("p1") # NullId
  /\ Len(getPresets("p1")) = 2
  /\ getPresets("p1")[1].id = getActivePresetId("p1")

\* C34: snapshot consistency: between store calls, for every registered
\* panel the object getValues(id) returns has exactly the keys and values of
\* the panel's live flat values
C34_SnapshotConsistent ==
  \A id \in DOMAIN panels :
    /\ getValues(id) # EMPTY_VALUES
    /\ getValues(id).values = getPanel(id).values

\* a loadPreset that replaced the live values by values other than the
\* registered defaults: the snapshot holds them too
C34_Witness ==
  /\ last.op = "loadPreset"
  /\ "p1" \in DOMAIN panels
  /\ calls # <<>>
  /\ getPanel("p1").values # hist.defaults["p1"]
  /\ getValues("p1").values = getPanel("p1").values

\* what a per-id map holds for the id: nothing, or its entry
Slot(map, id) == [k \in DOMAIN map \cap {id} |-> map[k]]

\* the store calls that are addressed to one panel
PanelOps ==
  {"registerPanel", "unregisterPanel", "updateValue", "updateSpringMode",
   "savePreset", "loadPreset", "deletePreset", "clearActivePreset", "triggerAction"}

\* C35: panel isolation: a call addressed to panel A leaves the live values,
\* the snapshot object, the base values, the preset list and the active
\* pointer of every other panel B as they were and invokes no value
\* listener and no action listener of B
C35_PanelIsolation ==
  [][last'.op \in PanelOps =>
       \A b \in PanelIds \ {last'.id} :
         /\ Slot(panels', b) = Slot(panels, b)
         /\ Slot(snapshots', b) = Slot(snapshots, b)
         /\ Slot(baseValues', b) = Slot(baseValues, b)
         /\ Slot(presets', b) = Slot(presets, b)
         /\ Slot(activePreset', b) = Slot(activePreset, b)
         /\ \A i \in 1..Len(calls') :
              calls'[i].kind \in {"value", "action"} => calls'[i].panel # b]_vars

\* an updateValue on p2 while p1 is registered with an active preset and a
\* value listener: no listener of p1 was invoked
C35_Witness ==
  /\ last.op = "updateValue"
  /\ last.id = "p2"
  /\ {"p1", "p2"} \subseteq DOMAIN panels
  /\ getActivePresetId("p1") # NullId
  /\ ListenersOf("value", "p1") # {}
  /\ \A i \in 1..Len(calls) : calls[i].panel # "p1"

\* the mode a flat value map holds for the spring at SpringPath
ModeIn(values) ==
  IF (SpringPath \o ".__mode") \in DOMAIN values
  THEN values[SpringPath \o ".__mode"] ELSE Str("simple")

\* the flat value map without the value at SpringPath
ButSpring(values) == [k \in DOMAIN values \ {SpringPath} |-> values[k]]

\* C36: updateSpringMode writes the live values only: the base values and
\* the stored values of every preset stay as they are, and a mode switch
\* through the control saves the spring value but not the mode.  A later
\* loadPreset or clearActivePreset therefore brings back the mode the preset
\* or the base values hold, whatever mode was set since.
C36_ModeNotSaved ==
  [][\A id \in CallIds :
       last'.id = id =>
         /\ last'.op = "updateSpringMode" =>
              /\ baseValues' = baseValues
              /\ presets' = presets
         /\ last'.op = "handleModeChange" =>
              /\ DOMAIN baseValues' = DOMAIN baseValues
              /\ id \in DOMAIN baseValues =>
                   ButSpring(baseValues'[id]) = ButSpring(baseValues[id])
              /\ Len(getPresets(id)') = Len(getPresets(id))
              /\ \A i \in 1..Len(getPresets(id)) :
                   ButSpring(getPresets(id)'[i].values) = ButSpring(getPresets(id)[i].values)
         /\ (/\ id \in DOMAIN panels
             /\ \/ last'.op = "clearActivePreset"
                \/ /\ last'.op = "loadPreset"
                   /\ FindPreset(getPresets(id), last'.presetId) # 0) =>
              getSpringMode(id, SpringPath)' =
                IF last'.op = "loadPreset"
                THEN ModeIn(getPresets(id)[FindPreset(getPresets(id), last'.presetId)].values)
                ELSE IF id \in DOMAIN baseValues THEN ModeIn(baseValues[id])
                ELSE getSpringMode(id, SpringPath)]_vars

\* a spring registered with time-domain fields was switched to advanced and
\* a preset was loaded afterwards: the value restored has physics fields and
\* getSpringMode returns 'simple'
C36_Witness ==
  /\ last.op = "loadPreset"
  /\ "p1" \in DOMAIN panels
  /\ hist.defaults["p1"][SpringPath] = SpringTime
  /\ Carries(getValue("p1", SpringPath), PhysicsFields)
  /\ getSpringMode("p1", SpringPath) = Str("simple")

\* C37: every call that changes the object getValues(id) returns invokes,
\* within the call, the value listeners that were subscribed to id when the
\* call started
C37_ChangeNotifies ==
  [][\A id \in CallIds :
       ValuesAfter(id) # getValues(id) =>
         \A l \in ListenersOf("value", id) : InvokedTimes(calls', "value", id, l) >= 1]_vars

\* C38: re-entrant mutation loses no update: when a value listener calls
\* updateValue on its panel while it is notified, the nested call is carried
\* out inside the outer one (its write is in the live values and in the
\* snapshot when the outer call returns), and every listener subscribed to
\* the panel has been invoked at least once after the last snapshot of the
\* call was installed
C38_NestedLosesNoUpdate ==
  (eval.fn = "notify" /\ last.op = "updateValue" /\ last.id \in DOMAIN panels) =>
    LET id == last.id
    IN /\ \A l \in ListenersOf("value", id) :
            \E i \in 1..Len(eval.out) : eval.out[i].fn = l /\ eval.out[i].at = eval.v
       /\ \A l \in ListenersOf("value", id) \cap DOMAIN Writers :
            /\ getValue(id, Writers[l][1]) = Writers[l][2]
            /\ FlatGet(getValues(id).values, Writers[l][1]) = Writers[l][2]
       /\ getValues(id).values = getPanel(id).values

\* an updateValue with l1 subscribed before r1: l1 ran after the first
\* snapshot, r1 then wrote, and the call installed more than one snapshot
C38_Witness ==
  /\ eval.fn = "notify"
  /\ last.op = "updateValue"
  /\ "p1" \in DOMAIN listeners
  /\ Len(listeners["p1"]) >= 2
  /\ listeners["p1"][1] = "l1"
  /\ "r1" \in ListenersOf("value", "p1")
  /\ eval.v >= 2
  /\ eval.out[1] = [fn |-> "l1", at |-> 1]


\* C39 as stated: once destroy() of a binding has returned, its panel is not
\* registered, binding.set(path, v) changes no store state, triggerAction
\* on the panel id never invokes options.onAction, and a second destroy()
\* removes nothing further.
C39_SecondDestroyRemovesNothing ==
  [][binding.destroys > 0 =>
       /\ BindingId \notin DOMAIN panels
       /\ BindingId \notin DOMAIN panels'
       /\ last'.op = "updateValue" =>
            /\ UNCHANGED <<storeVars, subVars>>
            /\ calls' = <<>>
       /\ last'.op = "triggerAction" =>
            \A i \in 1..Len(calls') : calls'[i].fn # binding.onAction
       /\ last'.op = "destroy" => UNCHANGED <<storeVars, subVars>>]_vars

\* C39 amended: once destroy() of a binding has returned, its panel is not
\* registered, binding.set(path, v) changes no store state, triggerAction
\* on the panel id never invokes options.onAction, and a second destroy()
\* removes no panel, snapshot, preset or action listener: it removes only
\* the value listeners subscribed to the panel id since the first destroy().
C39_DestroyedStaysGone ==
  [][binding.destroys > 0 =>
       /\ BindingId \notin DOMAIN panels
       /\ BindingId \notin DOMAIN panels'
       /\ last'.op = "updateValue" =>
            /\ UNCHANGED <<storeVars, subVars>>
            /\ calls' = <<>>
       /\ last'.op = "triggerAction" =>
            \A i \in 1..Len(calls') : calls'[i].fn # binding.onAction
       /\ last'.op = "destroy" =>
            /\ UNCHANGED <<storeVars, globalListeners, actionListeners>>
            /\ \A id \in DOMAIN listeners : id # BindingId =>
                 id \in DOMAIN listeners' /\ listeners'[id] = listeners[id]
            /\ BindingId \notin DOMAIN listeners => UNCHANGED listeners]_vars

\* a binding made with onAction was destroyed twice while params had a
\* subscriber
C39_Witness ==
  /\ binding.destroys = 2
  /\ binding.onAction \in ActionListeners
  /\ binding.subs # {}
  /\ last.op = "destroy"

====
